---- MODULE Spec2Model ----
(***************************************************************************)
(* Model of the Kolam geometry engine (kolam_geometry.py) and of the style *)
(* generators (kolam_generator.py).                                        *)
(*                                                                         *)
(* Numbers.  Grid spacings, radii and centers of the generators are kept   *)
(* in tenths (spacing 2.0 is 20).  Points handed to the symmetry analyzer  *)
(* have integer coordinates; the analyzer's arithmetic (centroid, rotation *)
(* by 2*pi/fold, distance against the tolerance 0.1) is carried out        *)
(* exactly, in the ring Z[sqrt 2] over a common denominator, so that a     *)
(* match within tolerance is decided, not approximated.                    *)
(***************************************************************************)
EXTENDS Integers, Sequences, FiniteSets, TLC

VARIABLES
    name,        \* KolamPattern.name
    kolam_type,  \* KolamPattern.kolam_type: a KolamType name
    grid,        \* KolamPattern.grid: PyNone or a DotGrid record
    curves,      \* KolamPattern.curves: list of curves (lists of Point2D)
    symmetries,  \* KolamPattern.symmetries: list of SymmetryType names
    op,          \* the last call made ("init" before any call)
    args,        \* the arguments of the call under study, or of the last call
    ret          \* how the last call ended: Return(v) or Raise(e)

vars == <<name, kolam_type, grid, curves, symmetries, op, args, ret>>

----------------------------------------------------------------------------
(* Bounds of the model. *)

MaxCoord == 1
MaxPts == 2
MaxHalf == 2
MaxCurveLen == 2
MaxCurves == 2
MaxDim == 3
MaxGenDim == 5
MaxParam == 2
MaxRadius == 2
MaxPetalHalf == 52
MaxTail == 3
MaxSamples == 22
MaxZig == 7
MaxCells == 3
MaxTurns == 9

(* Program constants. *)

TolDen == 10
NumPoints == 20
PetalPoints == 200
ConnectPoints == 20
SpokePoints == 10

----------------------------------------------------------------------------
(* Python values and call outcomes. *)

PyNone == [none |-> TRUE]

Return(v) == [kind |-> "return", val |-> v]

Raise(e) == [kind |-> "raise", exc |-> e]

NoCall == [kind |-> "none"]

NoArgs == [fn |-> "none"]

Point2D(px, py) == [x |-> px, y |-> py]

Range(s) == {s[i] : i \in DOMAIN s}

RECURSIVE Flatten(_)
Flatten(ss) == IF ss = <<>> THEN <<>> ELSE Head(ss) \o Flatten(Tail(ss))

RECURSIVE SeqsUpTo(_, _)
SeqsUpTo(S, n) ==
    IF n = 0 THEN {<<>>}
    ELSE LET shorter == SeqsUpTo(S, n - 1)
         IN  shorter \cup {Append(s, e) : s \in shorter, e \in S}

(* the positions 1 .. n of the n elements of range(n); none when n <= 0 *)
Upto(n) == 1 .. (IF n < 0 THEN 0 ELSE n)

(* range(a, b, step) for step > 0 *)
PyRange(a, b, step) ==
    IF b <= a THEN <<>>
    ELSE [k \in 1 .. ((b - a + step - 1) \div step) |-> a + (k - 1) * step]

----------------------------------------------------------------------------
(* Exact arithmetic in Z[sqrt 2]: [a, b] stands for a + b*sqrt(2). *)

ZInt(n) == [a |-> n, b |-> 0]

ZAdd(u, v) == [a |-> u.a + v.a, b |-> u.b + v.b]

ZSub(u, v) == [a |-> u.a - v.a, b |-> u.b - v.b]

ZMul(u, v) == [a |-> u.a * v.a + 2 * u.b * v.b, b |-> u.a * v.b + u.b * v.a]

ZHalf(u) == [a |-> u.a \div 2, b |-> u.b \div 2]

(* m > n*sqrt(2) for naturals m, n *)
RECURSIVE GtSqrt2(_, _)
GtSqrt2(m, n) ==
    IF n = 0 THEN m > 0
    ELSE IF m <= n THEN FALSE
    ELSE IF m >= 2 * n THEN TRUE
    ELSE ~GtSqrt2(2 * n - m, m - n)

(* a + b*sqrt(2) < 0 *)
ZNegative(u) ==
    CASE u.a < 0 /\ u.b <= 0 -> TRUE
      [] u.a >= 0 /\ u.b >= 0 -> FALSE
      [] u.a < 0 /\ u.b > 0 -> GtSqrt2(-u.a, u.b)
      [] OTHER -> ~GtSqrt2(u.a, -u.b)

(* Twice math.cos and twice math.sin of an angle of e eighths of a turn   *)
(* (e * pi/4): 2*pi/fold is 8/fold eighths, i * pi/2 is 2*i eighths.      *)
Cos2(e) ==
    CASE e = 0 -> ZInt(2)
      [] e \in {1, 7} -> [a |-> 0, b |-> 1]
      [] e \in {2, 6} -> ZInt(0)
      [] e \in {3, 5} -> [a |-> 0, b |-> -1]
      [] e = 4 -> ZInt(-2)

Sin2(e) ==
    CASE e \in {0, 4} -> ZInt(0)
      [] e \in {1, 3} -> [a |-> 0, b |-> 1]
      [] e = 2 -> ZInt(2)
      [] e \in {5, 7} -> [a |-> 0, b |-> -1]
      [] e = 6 -> ZInt(-2)

(* A point in units of 1/K, coordinates in Z[sqrt 2]. *)
Lift(p, K) == [x |-> ZInt(K * p.x), y |-> ZInt(K * p.y)]

(* Point2D.distance_to(other) < 1/TolDen, both points in units of 1/K *)
WithinTolerance(P, Q, K) ==
    LET dx == ZSub(P.x, Q.x)
        dy == ZSub(P.y, Q.y)
        d2 == ZAdd(ZMul(dx, dx), ZMul(dy, dy))
    IN  ZNegative(ZSub(ZMul(ZInt(TolDen * TolDen), d2), ZInt(K * K)))

(* Point2D.rotate(e * pi/4, center): P, C in units of 1/K with even       *)
(* coordinates, so the halving of the doubled cosine and sine is exact.   *)
rotate(P, e, C) ==
    LET tx == ZSub(P.x, C.x)
        ty == ZSub(P.y, C.y)
        rx == ZHalf(ZSub(ZMul(tx, Cos2(e)), ZMul(ty, Sin2(e))))
        ry == ZHalf(ZAdd(ZMul(tx, Sin2(e)), ZMul(ty, Cos2(e))))
    IN  [x |-> ZAdd(rx, C.x), y |-> ZAdd(ry, C.y)]

----------------------------------------------------------------------------
(* SymmetryType and SymmetryAnalyzer (kolam_geometry.py). *)

SymmetryType ==
    {"ROTATIONAL_2", "ROTATIONAL_4", "ROTATIONAL_8", "REFLECTIONAL_VERTICAL",
     "REFLECTIONAL_HORIZONTAL", "REFLECTIONAL_DIAGONAL", "TRANSLATIONAL", "POINT"}

RECURSIVE SumX(_)
SumX(points) == IF points = <<>> THEN 0 ELSE Head(points).x + SumX(Tail(points))

RECURSIVE SumY(_)
SumY(points) == IF points = <<>> THEN 0 ELSE Head(points).y + SumY(Tail(points))

(* every transformed point has some original point within tolerance *)
AllMatched(transformed, points, K) ==
    \A i \in DOMAIN transformed :
        \E j \in DOMAIN points :
            WithinTolerance(transformed[i], Lift(points[j], K), K)

(* rotates by pi/fold instead of 2*pi/fold *)
test_rotational_symmetry_half_angle(points, center, fold, K) ==
    LET rotated_points ==
            [i \in DOMAIN points |-> rotate(Lift(points[i], K), 4 \div fold, center)]
    IN  AllMatched(rotated_points, points, K)

(* center is given in units of 1/K *)
test_rotational_symmetry(points, center, fold, K) ==
    LET rotated_points ==
            [i \in DOMAIN points |-> rotate(Lift(points[i], K), 8 \div fold, center)]
    IN  AllMatched(rotated_points, points, K)

test_reflection_symmetry(points, center, axis, K) ==
    LET two == ZInt(2)
        P(i) == Lift(points[i], K)
    IN  CASE axis = "vertical" ->
               AllMatched([i \in DOMAIN points |->
                              [x |-> ZSub(ZMul(two, center.x), P(i).x), y |-> P(i).y]],
                          points, K)
          [] axis = "horizontal" ->
               AllMatched([i \in DOMAIN points |->
                              [x |-> P(i).x, y |-> ZSub(ZMul(two, center.y), P(i).y)]],
                          points, K)
          [] OTHER -> FALSE

Keep(cond, kind) == IF cond THEN <<kind>> ELSE <<>>

(* does not test the 8-fold rotation *)
detected_kinds_without_8(points) ==
    LET n == Len(points)
        K == 2 * n
        centroid == [x |-> ZInt(2 * SumX(points)), y |-> ZInt(2 * SumY(points))]
    IN  Keep(test_rotational_symmetry(points, centroid, 2, K), "ROTATIONAL_2")
        \o Keep(test_rotational_symmetry(points, centroid, 4, K), "ROTATIONAL_4")
        \o Keep(test_reflection_symmetry(points, centroid, "vertical", K),
                "REFLECTIONAL_VERTICAL")
        \o Keep(test_reflection_symmetry(points, centroid, "horizontal", K),
                "REFLECTIONAL_HORIZONTAL")

(* also reports the 2-fold rotation as a point symmetry *)
detected_kinds_with_point(points) ==
    LET n == Len(points)
        K == 2 * n
        centroid == [x |-> ZInt(2 * SumX(points)), y |-> ZInt(2 * SumY(points))]
    IN  Keep(test_rotational_symmetry(points, centroid, 2, K), "ROTATIONAL_2")
        \o Keep(test_rotational_symmetry(points, centroid, 4, K), "ROTATIONAL_4")
        \o Keep(test_rotational_symmetry(points, centroid, 8, K), "ROTATIONAL_8")
        \o Keep(test_reflection_symmetry(points, centroid, "vertical", K),
                "REFLECTIONAL_VERTICAL")
        \o Keep(test_reflection_symmetry(points, centroid, "horizontal", K),
                "REFLECTIONAL_HORIZONTAL")
        \o Keep(test_rotational_symmetry(points, centroid, 2, K), "POINT")

(* The centroid is (SumX/n, SumY/n); with K = 2n it is (2*SumX, 2*SumY) in *)
(* units of 1/K, and every lifted coordinate is even.  points is not empty.*)
detected_kinds(points) ==
    LET n == Len(points)
        K == 2 * n
        centroid == [x |-> ZInt(2 * SumX(points)), y |-> ZInt(2 * SumY(points))]
    IN  Keep(test_rotational_symmetry(points, centroid, 2, K), "ROTATIONAL_2")
        \o Keep(test_rotational_symmetry(points, centroid, 4, K), "ROTATIONAL_4")
        \o Keep(test_rotational_symmetry(points, centroid, 8, K), "ROTATIONAL_8")
        \o Keep(test_reflection_symmetry(points, centroid, "vertical", K),
                "REFLECTIONAL_VERTICAL")
        \o Keep(test_reflection_symmetry(points, centroid, "horizontal", K),
                "REFLECTIONAL_HORIZONTAL")

detect_symmetries_unguarded(points) ==
    IF points = <<>> THEN Raise("ZeroDivisionError")
    ELSE Return(detected_kinds(points))

detect_symmetries(points) ==
    IF points = <<>> THEN Return(<<>>)
    ELSE Return(detected_kinds(points))

(* A quarter-turn rotation of an integer point about an integer center.   *)
RotateQuarter(p, i, center) ==
    LET r == rotate(Lift(p, 2), 2 * i, Lift(center, 2))
    IN  Point2D(r.x.a \div 2, r.y.a \div 2)

(* mirrors in the other axis for the two reflections *)
apply_symmetry_axes_swapped(points, center, symmetry_type) ==
    CASE symmetry_type = "ROTATIONAL_4" ->
           points
           \o [k \in DOMAIN points |-> RotateQuarter(points[k], 1, center)]
           \o [k \in DOMAIN points |-> RotateQuarter(points[k], 2, center)]
           \o [k \in DOMAIN points |-> RotateQuarter(points[k], 3, center)]
      [] symmetry_type = "REFLECTIONAL_VERTICAL" ->
           points \o [k \in DOMAIN points |->
                         Point2D(points[k].x, 2 * center.y - points[k].y)]
      [] symmetry_type = "REFLECTIONAL_HORIZONTAL" ->
           points \o [k \in DOMAIN points |->
                         Point2D(2 * center.x - points[k].x, points[k].y)]
      [] OTHER -> points

(* leaves out the last of the three rotated copies *)
apply_symmetry_two_copies(points, center, symmetry_type) ==
    CASE symmetry_type = "ROTATIONAL_4" ->
           points
           \o [k \in DOMAIN points |-> RotateQuarter(points[k], 1, center)]
           \o [k \in DOMAIN points |-> RotateQuarter(points[k], 2, center)]
      [] symmetry_type = "REFLECTIONAL_VERTICAL" ->
           points \o [k \in DOMAIN points |->
                         Point2D(2 * center.x - points[k].x, points[k].y)]
      [] symmetry_type = "REFLECTIONAL_HORIZONTAL" ->
           points \o [k \in DOMAIN points |->
                         Point2D(points[k].x, 2 * center.y - points[k].y)]
      [] OTHER -> points

(* treats ROTATIONAL_2 as a rotation too: the points and their half turn *)
apply_symmetry_rotational_2(points, center, symmetry_type) ==
    CASE symmetry_type = "ROTATIONAL_4" ->
           points
           \o [k \in DOMAIN points |-> RotateQuarter(points[k], 1, center)]
           \o [k \in DOMAIN points |-> RotateQuarter(points[k], 2, center)]
           \o [k \in DOMAIN points |-> RotateQuarter(points[k], 3, center)]
      [] symmetry_type = "ROTATIONAL_2" ->
           points \o [k \in DOMAIN points |-> RotateQuarter(points[k], 2, center)]
      [] symmetry_type = "REFLECTIONAL_VERTICAL" ->
           points \o [k \in DOMAIN points |->
                         Point2D(2 * center.x - points[k].x, points[k].y)]
      [] symmetry_type = "REFLECTIONAL_HORIZONTAL" ->
           points \o [k \in DOMAIN points |->
                         Point2D(points[k].x, 2 * center.y - points[k].y)]
      [] OTHER -> points

apply_symmetry(points, center, symmetry_type) ==
    CASE symmetry_type = "ROTATIONAL_4" ->
           points
           \o [k \in DOMAIN points |-> RotateQuarter(points[k], 1, center)]
           \o [k \in DOMAIN points |-> RotateQuarter(points[k], 2, center)]
           \o [k \in DOMAIN points |-> RotateQuarter(points[k], 3, center)]
      [] symmetry_type = "REFLECTIONAL_VERTICAL" ->
           points \o [k \in DOMAIN points |->
                         Point2D(2 * center.x - points[k].x, points[k].y)]
      [] symmetry_type = "REFLECTIONAL_HORIZONTAL" ->
           points \o [k \in DOMAIN points |->
                         Point2D(points[k].x, 2 * center.y - points[k].y)]
      [] OTHER -> points

----------------------------------------------------------------------------
(* KolamPattern (kolam_geometry.py): the object under study.              *)

(* The points a caller puts into curves. *)
CurvePoints == {Point2D(0, 0), Point2D(5, -3)}

CurveInputs == SeqsUpTo(CurvePoints, MaxCurveLen)

Init ==
    /\ name = "Sample Square Loop"
    /\ kolam_type = "PULLI_KOLAM"
    /\ grid = PyNone
    /\ curves = <<>>
    /\ symmetries = <<>>
    /\ op = "init"
    /\ args = NoArgs
    /\ ret = NoCall

(* also re-runs the analysis on the new curves *)
add_curve_refreshing(curve_points) ==
    /\ Len(curves) < MaxCurves
    /\ curves' = Append(curves, curve_points)
    /\ symmetries' = detect_symmetries(Flatten(Append(curves, curve_points))).val
    /\ op' = "add_curve"
    /\ args' = [fn |-> "add_curve", curve_points |-> curve_points]
    /\ ret' = Return(PyNone)
    /\ UNCHANGED <<name, kolam_type, grid>>

add_curve(curve_points) ==
    /\ Len(curves) < MaxCurves
    /\ curves' = Append(curves, curve_points)
    /\ op' = "add_curve"
    /\ args' = [fn |-> "add_curve", curve_points |-> curve_points]
    /\ ret' = Return(PyNone)
    /\ UNCHANGED <<name, kolam_type, grid, symmetries>>

(* add_curve stores the caller's list itself, not a copy: the caller, who  *)
(* still holds it, empties it (list.clear()) or appends a point to it.     *)
caller_clears_list(i) ==
    /\ curves[i] # <<>>
    /\ curves' = [curves EXCEPT ![i] = <<>>]
    /\ op' = "caller_clears_list"
    /\ args' = NoArgs
    /\ ret' = NoCall
    /\ UNCHANGED <<name, kolam_type, grid, symmetries>>

caller_appends_to_list(i, p) ==
    /\ Len(curves[i]) < MaxCurveLen
    /\ curves' = [curves EXCEPT ![i] = Append(@, p)]
    /\ op' = "caller_appends_to_list"
    /\ args' = NoArgs
    /\ ret' = NoCall
    /\ UNCHANGED <<name, kolam_type, grid, symmetries>>

analyze_symmetries ==
    LET all_points == Flatten(curves)
        found == detect_symmetries(all_points)
    IN  /\ op' = "analyze_symmetries"
        /\ IF all_points # <<>> /\ found.kind = "raise"
           THEN ret' = found /\ UNCHANGED symmetries
           ELSE /\ ret' = Return(PyNone)
                /\ symmetries' = IF all_points # <<>> THEN found.val ELSE symmetries
        /\ args' = NoArgs
        /\ UNCHANGED <<name, kolam_type, grid, curves>>

(* min() and max() of a non-empty set of numbers; min() of no numbers      *)
(* raises ValueError, which is decided before these are used.              *)
Min(S) == CHOOSE m \in S : \A n \in S : m <= n

Max(S) == CHOOSE m \in S : \A n \in S : m >= n

bounding_box(cs) ==
    IF cs = <<>> THEN Return(<<Point2D(0, 0), Point2D(0, 0)>>)
    ELSE LET all_points == Flatten(cs)
             xs == {p.x : p \in Range(all_points)}
             ys == {p.y : p \in Range(all_points)}
         IN  IF all_points = <<>> THEN Raise("ValueError")
             ELSE Return(<<Point2D(Min(xs), Min(ys)), Point2D(Max(xs), Max(ys))>>)

get_bounding_box ==
    /\ op' = "get_bounding_box"
    /\ ret' = bounding_box(curves)
    /\ args' = NoArgs
    /\ UNCHANGED <<name, kolam_type, grid, curves, symmetries>>

Next ==
    \/ \E c \in CurveInputs : add_curve(c)
    \/ \E i \in DOMAIN curves : caller_clears_list(i)
    \/ \E i \in DOMAIN curves : \E p \in CurvePoints : caller_appends_to_list(i, p)
    \/ analyze_symmetries
    \/ get_bounding_box

Spec == Init /\ [][Next]_vars

----------------------------------------------------------------------------
(* SymmetryAnalyzer as pure functions: one call of apply_symmetry and/or   *)
(* detect_symmetries on inputs drawn by the initial state.                 *)

Coord == -MaxCoord .. MaxCoord

(* detection does not depend on where the points lie as a whole: the      *)
(* inputs are taken in the upper half of the coordinate square            *)
Points == {Point2D(px, py) : px \in Coord, py \in 0 .. MaxCoord}

PointLists == SeqsUpTo(Points, MaxPts)

Centers == {Point2D(c, 1 - c) : c \in 0 .. MaxCoord}

(* the 4 corners of the axis-aligned square of half side h about the origin *)
Corners(h) == {Point2D(h, h), Point2D(-h, h), Point2D(-h, -h), Point2D(h, -h)}

IsSquare(l) == Len(l) = 4 /\ \E h \in 1 .. MaxHalf : Range(l) = Corners(h)

SquareLists ==
    UNION {{l \in [1 .. 4 -> Corners(h)] : Range(l) = Corners(h)} : h \in 1 .. MaxHalf}

SymInputs ==
    {[fn |-> "symmetry", points |-> l, center |-> c, via |-> "none", src |-> l] :
        l \in PointLists, c \in Centers}
    \cup {[fn |-> "symmetry", points |-> l, center |-> Point2D(0, 0),
           via |-> "none", src |-> l] : l \in SquareLists}

InitSym ==
    /\ name = "Sample Square Loop"
    /\ kolam_type = "PULLI_KOLAM"
    /\ grid = PyNone
    /\ curves = <<>>
    /\ symmetries = <<>>
    /\ op = "init"
    /\ args \in SymInputs
    /\ ret = NoCall

(* apply_symmetry(points, center, kind); its result is the next input of   *)
(* detect_symmetries.                                                      *)
call_apply_symmetry(kind) ==
    /\ op = "init"
    /\ args.fn = "symmetry"
    /\ op' = "apply_symmetry"
    /\ args' = [args EXCEPT !.points = apply_symmetry(args.points, args.center, kind),
                            !.via = kind]
    /\ ret' = Return(apply_symmetry(args.points, args.center, kind))
    /\ UNCHANGED <<name, kolam_type, grid, curves, symmetries>>

call_detect_symmetries ==
    /\ op \in {"init", "apply_symmetry"}
    /\ args.fn = "symmetry"
    /\ op' = "detect_symmetries"
    /\ ret' = detect_symmetries(args.points)
    /\ UNCHANGED <<name, kolam_type, grid, curves, symmetries, args>>

NextSym ==
    \/ \E kind \in SymmetryType : call_apply_symmetry(kind)
    \/ call_detect_symmetries

SpecSym == InitSym /\ [][NextSym]_vars

----------------------------------------------------------------------------
(* DotGrid (kolam_geometry.py), reached through KolamPattern.set_grid.     *)

(* grid spacings in tenths: 1.0 and 1.5 *)
Spacings == {10, 15}

generate_grid(rows, cols, spacing) ==
    [i \in Upto(rows) |-> [j \in Upto(cols) |-> Point2D((j - 1) * spacing, (i - 1) * spacing)]]

DotGrid(rows, cols, spacing) ==
    [rows |-> rows, cols |-> cols, spacing |-> spacing,
     dots |-> generate_grid(rows, cols, spacing)]

(* s[i] of Python, negative indices counting from the end *)
PyIndex(s, i) ==
    IF 0 <= i /\ i < Len(s) THEN s[i + 1]
    ELSE IF i < 0 /\ -i <= Len(s) THEN s[Len(s) + i + 1]
    ELSE <<>>

get_dot_no_lower_bound(g, row, col) ==
    IF row < g.rows /\ col < g.cols
    THEN PyIndex(PyIndex(g.dots, row), col)
    ELSE PyNone

get_dot(g, row, col) ==
    IF 0 <= row /\ row < g.rows /\ 0 <= col /\ col < g.cols
    THEN g.dots[row + 1][col + 1]
    ELSE PyNone

(* the (dr, dc) of the two nested loops over range(-radius, radius + 1),   *)
(* in the order they are visited                                           *)
neighbor_offsets(radius) ==
    LET R == PyRange(-radius, radius + 1, 1)
    IN  [k \in 1 .. Len(R) * Len(R) |->
            <<R[((k - 1) \div Len(R)) + 1], R[((k - 1) % Len(R)) + 1]>>]

(* does not skip the cell itself *)
get_neighbors_with_self(g, row, col, radius) ==
    LET kept == SelectSeq(neighbor_offsets(radius),
                          LAMBDA d : get_dot(g, row + d[1], col + d[2]) # PyNone)
    IN  [k \in DOMAIN kept |-> get_dot(g, row + kept[k][1], col + kept[k][2])]

(* `if dot:` holds for every Point2D (the dataclass defines neither        *)
(* __bool__ nor __len__) and fails for None                                *)
get_neighbors(g, row, col, radius) ==
    LET kept == SelectSeq(neighbor_offsets(radius),
                          LAMBDA d : /\ ~(d[1] = 0 /\ d[2] = 0)
                                     /\ get_dot(g, row + d[1], col + d[2]) # PyNone)
    IN  [k \in DOMAIN kept |-> get_dot(g, row + kept[k][1], col + kept[k][2])]

set_grid(rows, cols, spacing) ==
    /\ grid' = DotGrid(rows, cols, spacing)
    /\ op' = "set_grid"
    /\ args' = [fn |-> "set_grid", rows |-> rows, cols |-> cols, spacing |-> spacing]
    /\ ret' = Return(PyNone)
    /\ UNCHANGED <<name, kolam_type, curves, symmetries>>

call_get_dot(row, col) ==
    /\ grid # PyNone
    /\ op' = "get_dot"
    /\ args' = [fn |-> "get_dot", row |-> row, col |-> col]
    /\ ret' = Return(get_dot(grid, row, col))
    /\ UNCHANGED <<name, kolam_type, grid, curves, symmetries>>

call_get_neighbors(row, col, radius) ==
    /\ grid # PyNone
    /\ op' = "get_neighbors"
    /\ args' = [fn |-> "get_neighbors", row |-> row, col |-> col, radius |-> radius]
    /\ ret' = Return(get_neighbors(grid, row, col, radius))
    /\ UNCHANGED <<name, kolam_type, grid, curves, symmetries>>

(* The pattern is given its grid once, as every generator does; the        *)
(* queries leave the grid as it is, so each is made on the grid as         *)
(* set_grid built it.                                                      *)
NextGrid ==
    \/ /\ grid = PyNone
       /\ \E rows \in -1 .. MaxDim, cols \in -1 .. MaxDim, spacing \in Spacings :
              set_grid(rows, cols, spacing)
    \/ /\ op = "set_grid"
       /\ \E row \in -2 .. MaxDim + 1, col \in -2 .. MaxDim + 1 : call_get_dot(row, col)
    \/ /\ op = "set_grid"
       /\ \E row \in -2 .. MaxDim + 1, col \in -2 .. MaxDim + 1,
             radius \in -1 .. MaxRadius :
              call_get_neighbors(row, col, radius)

SpecGrid == Init /\ [][NextGrid]_vars

----------------------------------------------------------------------------
(* CurveGenerator (kolam_geometry.py).  The points of generated curves lie *)
(* at trigonometric offsets from a dot or center; they are kept as the     *)
(* parameters that determine them (lengths in tenths), not as coordinates. *)

(* angles of the loop arcs are counted in units of 1/FullTurn of a turn,   *)
(* so that each of the NumPoints - 1 steps of an arc is a whole number     *)
FullTurn == 8 * (NumPoints - 1)

(* the NumPoints points emitted for cell i of dot_positions: the point j   *)
(* is dot + curve_radius * (cos, sin)(base + angle), base being            *)
(* atan2(dy, dx) toward the next dot, or 0                                 *)
loop_arc(g, dot_positions, i, curve_radius) ==
    LET dot == get_dot(g, dot_positions[i][1], dot_positions[i][2])
        next_dot == IF i < Len(dot_positions)
                    THEN get_dot(g, dot_positions[i + 1][1], dot_positions[i + 1][2])
                    ELSE PyNone
        toward == i < Len(dot_positions) /\ next_dot # PyNone
        base == IF toward
                THEN [dy |-> next_dot.y - dot.y, dx |-> next_dot.x - dot.x]
                ELSE [zero |-> TRUE]
        start_angle == IF toward THEN FullTurn \div 4 ELSE 0
        sweep == IF toward THEN (3 * FullTurn) \div 4 ELSE FullTurn
    IN  IF dot = PyNone THEN <<>>
        ELSE [j \in 1 .. NumPoints |->
                 [dot |-> dot, radius |-> curve_radius, base |-> base,
                  angle |-> start_angle + (sweep * (j - 1)) \div (NumPoints - 1)]]

(* stops at the first cell that has no dot *)
generate_loop_around_dots_until_missing(g, dot_positions, curve_radius) ==
    LET missing == {i \in DOMAIN dot_positions :
                       get_dot(g, dot_positions[i][1], dot_positions[i][2]) = PyNone}
        last == IF missing = {} THEN Len(dot_positions)
                ELSE (CHOOSE i \in missing : \A k \in missing : i <= k) - 1
    IN  Flatten([i \in 1 .. last |-> loop_arc(g, dot_positions, i, curve_radius)])

generate_loop_around_dots(g, dot_positions, curve_radius) ==
    Flatten([i \in DOMAIN dot_positions |-> loop_arc(g, dot_positions, i, curve_radius)])

(* turns in eighths, which floating point holds exactly, as it does        *)
(* 100 * turns: int(100 * turns) points, the fraction dropped; point i is  *)
(* at angle (i/n) * turns * 2*pi and distance radius * (i/n) from center   *)
generate_spiral_pattern(center, radius, turns) ==
    LET num_points == (100 * turns) \div 8
    IN  [k \in Upto(num_points) |->
            [center |-> center, radius |-> radius, turns |-> turns,
             i |-> k - 1, n |-> num_points]]

(* uses k = num_petals in place of k = num_petals / 2 *)
generate_petal_pattern_whole_k(center, radius, num_petals) ==
    [k \in 1 .. PetalPoints |->
        [center |-> center, radius |-> radius, num_petals |-> 2 * num_petals, i |-> k - 1]]

(* point i is at angle t = (i/200) * 2*pi and distance                     *)
(* radius * |cos((num_petals/2) * t)| from center                          *)
generate_petal_pattern(center, radius, num_petals) ==
    [k \in 1 .. PetalPoints |->
        [center |-> center, radius |-> radius, num_petals |-> num_petals, i |-> k - 1]]

(* k * t is num_petals * i times pi/PetalPoints, and |cos| has period pi   *)
(* and falls from 1 to 0 over a quarter turn: |cos(k * t)| is              *)
(* cos(rank * pi/PetalPoints), rank being the distance of num_petals * i   *)
(* to the nearest multiple of PetalPoints, and is the larger the smaller   *)
(* the rank is                                                             *)
petal_rank(point) ==
    LET a == (point.num_petals * point.i) % PetalPoints
    IN  IF a <= PetalPoints - a THEN a ELSE PetalPoints - a

(* r = radius * abs(math.cos(k * t)) of p is greater than that of q, two   *)
(* points of one petal curve                                               *)
petal_r_greater(p, q) ==
    CASE p.radius > 0 -> petal_rank(p) < petal_rank(q)
      [] p.radius = 0 -> FALSE
      [] OTHER -> petal_rank(p) > petal_rank(q)

(* the two r are the same number before rounding; rounded, they may        *)
(* compare either way                                                      *)
petal_r_tied(p, q) == p.radius # 0 /\ petal_rank(p) = petal_rank(q)

(* CurveGenerator as pure functions: one call on inputs drawn by the       *)
(* initial state.  Radii and centers in tenths.                            *)
CurveInputs_petal ==
    {[fn |-> "generate_petal_pattern", center |-> Point2D(20, 20), radius |-> r,
      num_petals |-> 2 * h] : r \in {0, 10, 18}, h \in 0 .. MaxPetalHalf}

(* cells of the 5 by 5 grid and cells outside it *)
LoopCells == {<<0, 0>>, <<0, 1>>, <<1, 1>>, <<4, 2>>, <<-1, 0>>, <<5, 2>>, <<2, 5>>}

CurveInputs_loop ==
    {[fn |-> "generate_loop_around_dots", dot_positions |-> cells, curve_radius |-> r] :
        cells \in SeqsUpTo(LoopCells, MaxCells), r \in {3}}

CurveInputs_spiral ==
    {[fn |-> "generate_spiral_pattern", center |-> Point2D(20, 20), radius |-> r,
      turns |-> e] : r \in {0, 10}, e \in 0 .. MaxTurns}

InitCurve ==
    /\ name = "Sample Square Loop"
    /\ kolam_type = "PULLI_KOLAM"
    /\ grid = DotGrid(5, 5, 20)
    /\ curves = <<>>
    /\ symmetries = <<>>
    /\ op = "init"
    /\ args \in CurveInputs_petal \cup CurveInputs_loop \cup CurveInputs_spiral
    /\ ret = NoCall

call_generate_loop_around_dots ==
    /\ op = "init"
    /\ args.fn = "generate_loop_around_dots"
    /\ op' = "generate_loop_around_dots"
    /\ ret' = Return(generate_loop_around_dots(grid, args.dot_positions, args.curve_radius))
    /\ UNCHANGED <<name, kolam_type, grid, curves, symmetries, args>>

call_generate_petal_pattern ==
    /\ op = "init"
    /\ args.fn = "generate_petal_pattern"
    /\ op' = "generate_petal_pattern"
    /\ ret' = Return(generate_petal_pattern(args.center, args.radius, args.num_petals))
    /\ UNCHANGED <<name, kolam_type, grid, curves, symmetries, args>>

call_generate_spiral_pattern ==
    /\ op = "init"
    /\ args.fn = "generate_spiral_pattern"
    /\ op' = "generate_spiral_pattern"
    /\ ret' = Return(generate_spiral_pattern(args.center, args.radius, args.turns))
    /\ UNCHANGED <<name, kolam_type, grid, curves, symmetries, args>>

NextCurve ==
    \/ call_generate_petal_pattern
    \/ call_generate_spiral_pattern
    \/ call_generate_loop_around_dots

SpecCurve == InitCurve /\ [][NextCurve]_vars

----------------------------------------------------------------------------
(* KolamGenerator (kolam_generator.py).  Every generator builds a fresh    *)
(* KolamPattern and returns it.                                            *)

(* calls is the history of the methods called on the pattern, in order *)
KolamPattern(a_name, a_kolam_type) ==
    [name |-> a_name, kolam_type |-> a_kolam_type, grid |-> PyNone,
     curves |-> <<>>, symmetries |-> <<>>, calls |-> <<>>]

(* pattern.set_grid(rows, cols, spacing) *)
with_grid(pattern, rows, cols, spacing) ==
    [pattern EXCEPT !.grid = DotGrid(rows, cols, spacing),
                    !.calls = Append(@, "set_grid")]

(* pattern.add_curve(curve_points) *)
with_curve(pattern, curve_points) ==
    [pattern EXCEPT !.curves = Append(@, curve_points),
                    !.calls = Append(@, "add_curve")]

(* pattern.add_curve(c) for each c of cs in turn *)
RECURSIVE with_curves(_, _)
with_curves(pattern, cs) ==
    IF cs = <<>> THEN pattern
    ELSE with_curves(with_curve(pattern, Head(cs)), Tail(cs))

(* The lists detect_symmetries can return.  Whether a generated curve set  *)
(* passes the tolerance tests depends on the trigonometric coordinates,    *)
(* which the model does not compute: the analysis at the end of a          *)
(* generator may find any of these lists.                                  *)
DetectableLists ==
    {Keep(b[1], "ROTATIONAL_2") \o Keep(b[2], "ROTATIONAL_4")
       \o Keep(b[3], "ROTATIONAL_8") \o Keep(b[4], "REFLECTIONAL_VERTICAL")
       \o Keep(b[5], "REFLECTIONAL_HORIZONTAL") : b \in [1 .. 5 -> BOOLEAN]}

(* analyzes only a pattern that has curves *)
analyzed_if_curves(pattern, found) ==
    IF pattern.curves = <<>> THEN pattern
    ELSE [pattern EXCEPT !.symmetries = IF Flatten(pattern.curves) # <<>> THEN found ELSE @,
                         !.calls = Append(@, "analyze_symmetries")]

(* pattern.analyze_symmetries(), found being what detect_symmetries finds  *)
analyzed(pattern, found) ==
    [pattern EXCEPT !.symmetries = IF Flatten(pattern.curves) # <<>> THEN found ELSE @,
                    !.calls = Append(@, "analyze_symmetries")]

square_dots(r, c) == <<<<r, c>>, <<r, c + 1>>, <<r + 1, c + 1>>, <<r + 1, c>>, <<r, c>>>>

(* stops one row and one column early *)
pulli_basic_cells_short(rows, cols) ==
    LET R == PyRange(1, rows - 2, 2)
        C == PyRange(1, cols - 2, 2)
        all == [k \in 1 .. Len(R) * Len(C) |->
                   <<R[((k - 1) \div Len(C)) + 1], C[((k - 1) % Len(C)) + 1]>>]
    IN  SelectSeq(all, LAMBDA rc : rc[1] < rows - 1 /\ rc[2] < cols - 1)

(* the (r, c) the two loops of the "basic" variant visit, in order *)
pulli_basic_cells(rows, cols) ==
    LET R == PyRange(1, rows - 1, 2)
        C == PyRange(1, cols - 1, 2)
        all == [k \in 1 .. Len(R) * Len(C) |->
                   <<R[((k - 1) \div Len(C)) + 1], C[((k - 1) % Len(C)) + 1]>>]
    IN  SelectSeq(all, LAMBDA rc : rc[1] < rows - 1 /\ rc[2] < cols - 1)

PyMin(a, b) == IF a <= b THEN a ELSE b

(* closes the ring on the cell it ends with, not on the one it starts with *)
diamond_dots_closed_on_last(rows, cols, size) ==
    LET center_r == rows \div 2
        center_c == cols \div 2
        dots == (IF center_r - size >= 0 THEN <<<<center_r - size, center_c>>>> ELSE <<>>)
                \o (IF center_c + size < cols THEN <<<<center_r, center_c + size>>>> ELSE <<>>)
                \o (IF center_r + size < rows THEN <<<<center_r + size, center_c>>>> ELSE <<>>)
                \o (IF center_c - size >= 0 THEN <<<<center_r, center_c - size>>>> ELSE <<>>)
    IN  IF dots # <<>> THEN Append(dots, dots[Len(dots)]) ELSE <<>>

diamond_dots(rows, cols, size) ==
    LET center_r == rows \div 2
        center_c == cols \div 2
        dots == (IF center_r - size >= 0 THEN <<<<center_r - size, center_c>>>> ELSE <<>>)
                \o (IF center_c + size < cols THEN <<<<center_r, center_c + size>>>> ELSE <<>>)
                \o (IF center_r + size < rows THEN <<<<center_r + size, center_c>>>> ELSE <<>>)
                \o (IF center_c - size >= 0 THEN <<<<center_r, center_c - size>>>> ELSE <<>>)
    IN  IF dots # <<>> THEN Append(dots, dots[1]) ELSE <<>>

generate_pulli_kolam(rows, cols, dot_pattern, found) ==
    LET g == DotGrid(rows, cols, 20)
        cells == pulli_basic_cells(rows, cols)
        sizes == PyRange(1, PyMin(rows, cols) \div 2, 1)
        kept == SelectSeq(sizes, LAMBDA size : diamond_dots(rows, cols, size) # <<>>)
        cs == CASE dot_pattern = "basic" ->
                     [k \in DOMAIN cells |->
                         generate_loop_around_dots(
                             g, square_dots(cells[k][1], cells[k][2]), 4)]
                [] dot_pattern = "diamond" ->
                     [k \in DOMAIN kept |->
                         generate_loop_around_dots(
                             g, diamond_dots(rows, cols, kept[k]), 3)]
                [] OTHER -> <<>>
    IN  analyzed(with_curves(with_grid(KolamPattern(<<"Pulli Kolam", rows, cols>>,
                                                    "PULLI_KOLAM"),
                                       rows, cols, 20),
                             cs),
                 found)

(* point i of the quadratic curve from start to end *)
generate_connecting_curve(start, end) ==
    [k \in 1 .. ConnectPoints |-> [start |-> start, end |-> end, i |-> k - 1]]

(* the point at distance dist from base, at angle (num/den) * 2*pi *)
Polar(base, dist, num, den) == [base |-> base, dist |-> dist, num |-> num, den |-> den]

generate_sikku_kolam(complexity, found) ==
    LET size == 2 * complexity + 3
        g == DotGrid(size, size, 15)
        center == Point2D(((size - 1) * 15) \div 2, ((size - 1) * 15) \div 2)
        spirals == [k \in Upto(complexity) |->
                       generate_spiral_pattern(
                           Polar(center, k * 5, k - 1, complexity),
                           10 + (k - 1) * 3, 16 + (k - 1) * 4)]
        connecting == [k \in Upto(complexity) |->
                          generate_connecting_curve(
                              Polar(center, 20, k - 1, complexity),
                              Polar(center, 20, k, complexity))]
    IN  analyzed(with_curves(with_grid(KolamPattern(<<"Sikku Kolam Level", complexity>>,
                                                    "SIKKU_KOLAM"),
                                       size, size, 15),
                             spirals \o connecting),
                 found)

generate_flower_kolam(num_petals, layers, found) ==
    LET grid_size == 2 * layers + 5
        g == DotGrid(grid_size, grid_size, 10)
        center == Point2D((grid_size - 1) * 5, (grid_size - 1) * 5)
        petals == [k \in Upto(layers) |->
                      generate_petal_pattern(center, 10 + (k - 1) * 8, num_petals)]
        center_spiral == generate_spiral_pattern(center, 5, 12)
    IN  analyzed(with_curves(with_grid(KolamPattern(<<"Flower Kolam", num_petals>>,
                                                    "MARGAZHI_KOLAM"),
                                       grid_size, grid_size, 10),
                             Append(petals, center_spiral)),
                 found)

(* the curves of one ring: the circle of segments*8 points, then the       *)
(* segments spokes of SpokePoints points each                              *)
mandala_ring(center, ring, segments) ==
    LET radius == ring * 8
        ring_points == [k \in Upto(segments * 8) |->
                           [center |-> center, radius |-> radius,
                            i |-> k - 1, n |-> segments * 8]]
        spokes == [sp \in Upto(segments) |->
                      [t \in 1 .. SpokePoints |->
                          [center |-> center, radius |-> radius,
                           spoke |-> sp - 1, segments |-> segments, t |-> t - 1]]]
    IN  <<ring_points>> \o spokes

generate_mandala_kolam(rings, segments, found) ==
    LET grid_size == 2 * rings + 3
        g == DotGrid(grid_size, grid_size, 12)
        center == Point2D((grid_size - 1) * 6, (grid_size - 1) * 6)
        cs == Flatten([ring \in Upto(rings) |-> mandala_ring(center, ring, segments)])
    IN  analyzed(with_curves(with_grid(KolamPattern(<<"Mandala Kolam", rings>>,
                                                    "MARGAZHI_KOLAM"),
                                       grid_size, grid_size, 12),
                             cs),
                 found)

(* the dots get_dot finds at the cells of a list, in order *)
dots_at(g, cells) ==
    LET found_cells == SelectSeq(cells, LAMBDA rc : get_dot(g, rc[1], rc[2]) # PyNone)
    IN  [k \in DOMAIN found_cells |-> get_dot(g, found_cells[k][1], found_cells[k][2])]

(* the curves of the "geometric" variant: every 2nd row, every 2nd column, *)
(* then the diagonals c = r + offset of more than one dot                  *)
kambi_geometric_lines(g, grid_size) ==
    LET every == PyRange(0, grid_size, 1)
        second == PyRange(0, grid_size, 2)
        offsets == PyRange(-(grid_size - 1), grid_size, 1)
        horizontal == [k \in DOMAIN second |->
                          dots_at(g, [j \in DOMAIN every |-> <<second[k], every[j]>>])]
        vertical == [k \in DOMAIN second |->
                        dots_at(g, [j \in DOMAIN every |-> <<every[j], second[k]>>])]
        diagonal == [k \in DOMAIN offsets |->
                        dots_at(g, SelectSeq([j \in DOMAIN every |->
                                                 <<every[j], every[j] + offsets[k]>>],
                                             LAMBDA rc : 0 <= rc[2] /\ rc[2] < grid_size))]
    IN  SelectSeq(horizontal, LAMBDA line_points : line_points # <<>>)
        \o SelectSeq(vertical, LAMBDA line_points : line_points # <<>>)
        \o SelectSeq(diagonal, LAMBDA line_points : Len(line_points) > 1)

directions ==
    <<<<-1, -1>>, <<-1, 0>>, <<-1, 1>>, <<0, -1>>, <<0, 1>>, <<1, -1>>, <<1, 0>>, <<1, 1>>>>

(* the dots met from (r, c), that cell excluded, stepping by (dr, dc)      *)
(* until get_dot finds none                                                *)
RECURSIVE ray(_, _, _, _, _)
ray(g, r, c, dr, dc) ==
    LET dot == get_dot(g, r + dr, c + dc)
    IN  IF dot = PyNone THEN <<>>
        ELSE <<dot>> \o ray(g, r + dr, c + dc, dr, dc)

(* the curves of the "star" variant *)
kambi_star_lines(g, grid_size) ==
    LET center_r == grid_size \div 2
        center_c == grid_size \div 2
        center_dot == get_dot(g, center_r, center_c)
        rays == [k \in DOMAIN directions |->
                    <<center_dot>>
                    \o ray(g, center_r, center_c, directions[k][1], directions[k][2])]
    IN  IF center_dot = PyNone THEN <<>>
        ELSE SelectSeq(rays, LAMBDA line_points : Len(line_points) > 1)

generate_kambi_kolam(grid_size, line_style, found) ==
    LET g == DotGrid(grid_size, grid_size, 10)
        cs == CASE line_style = "geometric" -> kambi_geometric_lines(g, grid_size)
                [] line_style = "star" -> kambi_star_lines(g, grid_size)
                [] OTHER -> <<>>
    IN  analyzed(with_curves(with_grid(KolamPattern(<<"Kambi Kolam", grid_size, grid_size>>,
                                                    "KAMBI_KOLAM"),
                                       grid_size, grid_size, 10),
                             cs),
                 found)

GenInputs ==
    {[fn |-> "generate_kambi_kolam", grid_size |-> n, line_style |-> s] :
        n \in -1 .. MaxGenDim, s \in {"geometric", "star", "other"}}
    \cup
    {[fn |-> "generate_pulli_kolam", rows |-> r, cols |-> c, dot_pattern |-> d] :
        r \in 0 .. MaxGenDim, c \in 0 .. MaxGenDim, d \in {"basic", "diamond", "other"}}
    \cup
    {[fn |-> "generate_pulli_kolam", rows |-> r, cols |-> c, dot_pattern |-> "diamond"] :
        r \in {MaxGenDim + 1, MaxGenDim + 2}, c \in {MaxGenDim + 1, MaxGenDim + 2}}
    \cup {[fn |-> "generate_sikku_kolam", complexity |-> c] : c \in -1 .. MaxParam}
    \cup {[fn |-> "generate_flower_kolam", num_petals |-> n, layers |-> l] :
            n \in {0, 4, 8}, l \in -1 .. MaxParam}
    \cup {[fn |-> "generate_mandala_kolam", rings |-> r, segments |-> sg] :
            r \in -1 .. MaxParam, sg \in -1 .. MaxParam}

InitGen ==
    /\ name = "Sample Square Loop"
    /\ kolam_type = "PULLI_KOLAM"
    /\ grid = PyNone
    /\ curves = <<>>
    /\ symmetries = <<>>
    /\ op = "init"
    /\ args \in GenInputs
    /\ ret = NoCall

call_generate_pulli_kolam ==
    /\ op = "init"
    /\ args.fn = "generate_pulli_kolam"
    /\ op' = "generate_pulli_kolam"
    /\ \E found \in DetectableLists :
           ret' = Return(generate_pulli_kolam(args.rows, args.cols, args.dot_pattern, found))
    /\ UNCHANGED <<name, kolam_type, grid, curves, symmetries, args>>

call_generate_sikku_kolam ==
    /\ op = "init"
    /\ args.fn = "generate_sikku_kolam"
    /\ op' = "generate_sikku_kolam"
    /\ \E found \in DetectableLists :
           ret' = Return(generate_sikku_kolam(args.complexity, found))
    /\ UNCHANGED <<name, kolam_type, grid, curves, symmetries, args>>

call_generate_flower_kolam ==
    /\ op = "init"
    /\ args.fn = "generate_flower_kolam"
    /\ op' = "generate_flower_kolam"
    /\ \E found \in DetectableLists :
           ret' = Return(generate_flower_kolam(args.num_petals, args.layers, found))
    /\ UNCHANGED <<name, kolam_type, grid, curves, symmetries, args>>

call_generate_mandala_kolam ==
    /\ op = "init"
    /\ args.fn = "generate_mandala_kolam"
    /\ op' = "generate_mandala_kolam"
    /\ \E found \in DetectableLists :
           ret' = Return(generate_mandala_kolam(args.rings, args.segments, found))
    /\ UNCHANGED <<name, kolam_type, grid, curves, symmetries, args>>

call_generate_kambi_kolam ==
    /\ op = "init"
    /\ args.fn = "generate_kambi_kolam"
    /\ op' = "generate_kambi_kolam"
    /\ \E found \in DetectableLists :
           ret' = Return(generate_kambi_kolam(args.grid_size, args.line_style, found))
    /\ UNCHANGED <<name, kolam_type, grid, curves, symmetries, args>>

NextGen ==
    \/ call_generate_kambi_kolam
    \/ call_generate_pulli_kolam
    \/ call_generate_sikku_kolam
    \/ call_generate_flower_kolam
    \/ call_generate_mandala_kolam

SpecGen == InitGen /\ [][NextGen]_vars

(* The "star" variant of generate_kambi_kolam step by step: the frame of   *)
(* the call (the direction k being walked, the cell (r, c), line_points    *)
(* and the number of dots appended by the while loop) is kept in args, the *)
(* pattern under construction in name, kolam_type, grid and curves.        *)
StarInputs ==
    {[fn |-> "generate_kambi_kolam", grid_size |-> n, line_style |-> "star"] :
        n \in 0 .. MaxGenDim}

(* the state after pattern = KolamPattern(...) *)
InitStar ==
    /\ args \in StarInputs
    /\ name = <<"Kambi Kolam", args.grid_size, args.grid_size>>
    /\ kolam_type = "KAMBI_KOLAM"
    /\ grid = PyNone
    /\ curves = <<>>
    /\ symmetries = <<>>
    /\ op = "init"
    /\ ret = NoCall

(* line_points = [center_dot]; r, c = center_r, center_c *)
star_frame(frame, g, k) ==
    [fn |-> frame.fn, grid_size |-> frame.grid_size, line_style |-> frame.line_style,
     k |-> k, r |-> frame.grid_size \div 2, c |-> frame.grid_size \div 2,
     line_points |-> <<get_dot(g, frame.grid_size \div 2, frame.grid_size \div 2)>>,
     steps |-> 0]

(* the grid is set; with a center dot the first ray is begun, without one  *)
(* there are no rays                                                       *)
star_begin ==
    /\ op = "init"
    /\ grid' = DotGrid(args.grid_size, args.grid_size, 10)
    /\ IF get_dot(grid', args.grid_size \div 2, args.grid_size \div 2) # PyNone
       THEN op' = "while" /\ args' = star_frame(args, grid', 1)
       ELSE op' = "rays_done" /\ args' = args
    /\ UNCHANGED <<name, kolam_type, curves, symmetries, ret>>

(* one pass of the while loop on a grid whose edges are joined: the cell   *)
(* left on one side is entered on the other                                *)
star_step_on_torus ==
    /\ op = "while"
    /\ LET r == (args.r + directions[args.k][1]) % args.grid_size
           c == (args.c + directions[args.k][2]) % args.grid_size
           dot == get_dot(grid, r, c)
       IN  IF dot # PyNone
           THEN /\ args' = [args EXCEPT !.r = r, !.c = c,
                                        !.line_points = Append(@, dot),
                                        !.steps = @ + 1]
                /\ op' = "while"
           ELSE /\ args' = [args EXCEPT !.r = r, !.c = c]
                /\ op' = "ray_done"
    /\ UNCHANGED <<name, kolam_type, grid, curves, symmetries, ret>>

(* one pass of the while loop: r += dr; c += dc; the dot there is appended *)
(* or, there being none, the loop is left                                  *)
star_step ==
    /\ op = "while"
    /\ LET r == args.r + directions[args.k][1]
           c == args.c + directions[args.k][2]
           dot == get_dot(grid, r, c)
       IN  IF dot # PyNone
           THEN /\ args' = [args EXCEPT !.r = r, !.c = c,
                                        !.line_points = Append(@, dot),
                                        !.steps = @ + 1]
                /\ op' = "while"
           ELSE /\ args' = [args EXCEPT !.r = r, !.c = c]
                /\ op' = "ray_done"
    /\ UNCHANGED <<name, kolam_type, grid, curves, symmetries, ret>>

(* after the loop: the ray of more than one dot is added, and the next     *)
(* direction is begun if there is one                                      *)
star_ray_done ==
    /\ op = "ray_done"
    /\ curves' = IF Len(args.line_points) > 1 THEN Append(curves, args.line_points)
                 ELSE curves
    /\ IF args.k < Len(directions)
       THEN op' = "while" /\ args' = star_frame(args, grid, args.k + 1)
       ELSE op' = "rays_done" /\ args' = args
    /\ UNCHANGED <<name, kolam_type, grid, symmetries, ret>>

(* pattern.analyze_symmetries(); return pattern *)
star_return ==
    /\ op = "rays_done"
    /\ op' = "generate_kambi_kolam"
    /\ \E found \in DetectableLists :
           symmetries' = IF Flatten(curves) # <<>> THEN found ELSE symmetries
    /\ ret' = Return([name |-> name, kolam_type |-> kolam_type, grid |-> grid,
                      curves |-> curves, symmetries |-> symmetries'])
    /\ UNCHANGED <<name, kolam_type, grid, curves, args>>

NextStar ==
    \/ star_begin
    \/ star_step
    \/ star_ray_done
    \/ star_return

(* the call runs on: a step that can be taken is taken *)
SpecStar == InitStar /\ [][NextStar]_vars /\ WF_vars(NextStar)

----------------------------------------------------------------------------
(* PatternRecognizer (kolam_generator.py).  A curve handed to it is either *)
(* a list of lattice points (form "lattice") or a list of samples given by *)
(* their angle and distance about the centroid of the list (form "polar"). *)
(* Angles are whole numbers of 1/turn of a full turn, in the range         *)
(* -turn/2 < angle <= turn/2 of math.atan2.                                *)

RECURSIVE SumSeq(_)
SumSeq(s) == IF s = <<>> THEN 0 ELSE Head(s) + SumSeq(Tail(s))

Abs(n) == IF n < 0 THEN -n ELSE n

(* math.atan2(dy, dx) in quarter turns, for an offset along an axis *)
atan2_quarters(dy, dx) ==
    CASE dy = 0 /\ dx >= 0 -> 0
      [] dy = 0 /\ dx < 0 -> 2
      [] dx = 0 /\ dy > 0 -> 1
      [] dx = 0 /\ dy < 0 -> -1

(* The angle and the distance of every point about the centroid.  The      *)
(* lattice curves of the model have their points on the two axes through   *)
(* their centroid, so that both are whole numbers.                         *)
polar_about_centroid(curve) ==
    IF curve.form = "polar" THEN curve.points
    ELSE LET points == curve.points
             center == Point2D(SumX(points) \div Len(points), SumY(points) \div Len(points))
         IN  [i \in DOMAIN points |->
                 [angle |-> atan2_quarters(points[i].y - center.y, points[i].x - center.x),
                  distance |-> Abs(points[i].x - center.x) + Abs(points[i].y - center.y)]]

(* variance < (avg_distance * 0.1) ** 2, with variance = Q/n - (S/n)^2 and *)
(* avg_distance = S/n for S the sum and Q the sum of squares of the        *)
(* distances: 100*n*Q - 100*S^2 < S^2                                      *)
is_circular_pattern(curve) ==
    IF Len(curve.points) < 10 THEN FALSE
    ELSE LET polar == polar_about_centroid(curve)
             n == Len(polar)
             S == SumSeq([i \in DOMAIN polar |-> polar[i].distance])
             Q == SumSeq([i \in DOMAIN polar |-> polar[i].distance * polar[i].distance])
         IN  100 * n * Q < 101 * S * S

(* angles[i] - angles[i-1], brought back into [-pi, pi] *)
angle_diff(polar, i, turn) ==
    LET d == polar[i].angle - polar[i - 1].angle
    IN  IF 2 * d > turn THEN d - turn
        ELSE IF 2 * d < -turn THEN d + turn
        ELSE d

angle_progression(polar, turn) ==
    SumSeq([k \in 1 .. Len(polar) - 1 |-> angle_diff(polar, k + 1, turn)])

distance_trend(polar) ==
    Cardinality({i \in 2 .. Len(polar) : polar[i].distance > polar[i - 1].distance})

(* the radius condition alone *)
is_spiral_pattern_by_radius(curve) ==
    IF Len(curve.points) < 20 THEN FALSE
    ELSE 10 * distance_trend(polar_about_centroid(curve)) > 6 * Len(curve.points)

is_spiral_pattern(curve) ==
    IF Len(curve.points) < 20 THEN FALSE
    ELSE LET polar == polar_about_centroid(curve)
         IN  /\ Abs(angle_progression(polar, curve.turn)) > curve.turn
             /\ 10 * distance_trend(polar) > 6 * Len(polar)

(* the order of the tuples (angle, radius) *)
polar_less(a, b) ==
    \/ a.angle < b.angle
    \/ a.angle = b.angle /\ a.distance < b.distance

(* polar_points.sort() *)
sorted_polar(polar) ==
    LET place(i) == 1 + Cardinality({j \in DOMAIN polar : polar_less(polar[j], polar[i])})
                      + Cardinality({j \in 1 .. i - 1 : polar[j] = polar[i]})
    IN  [q \in DOMAIN polar |-> polar[CHOOSE i \in DOMAIN polar : place(i) = q]]

is_petal_pattern(curve) ==
    IF Len(curve.points) < 20 THEN FALSE
    ELSE LET polar_points == sorted_polar(polar_about_centroid(curve))
             radii == [i \in DOMAIN polar_points |-> polar_points[i].distance]
             local_maxima == Cardinality({i \in 2 .. Len(radii) - 1 :
                                             /\ radii[i] > radii[i - 1]
                                             /\ radii[i] > radii[i + 1]})
         IN  local_maxima >= 4

(* The least-squares line of the lattice points of a segment.  With        *)
(* A = n*sum_xy - sum_x*sum_y, B = denom = n*sum_x2 - sum_x^2 and          *)
(* C = n*sum_y2 - sum_y^2: slope = A/B, ss_tot = C/n, ss_res = C/n -       *)
(* A^2/(n*B), so r_squared = A^2/(B*C).                                    *)
is_linear_segment(points) ==
    IF Len(points) < 3 THEN TRUE
    ELSE LET n == Len(points)
             sum_x == SumX(points)
             sum_y == SumY(points)
             sum_xy == SumSeq([i \in DOMAIN points |-> points[i].x * points[i].y])
             sum_x2 == SumSeq([i \in DOMAIN points |-> points[i].x * points[i].x])
             sum_y2 == SumSeq([i \in DOMAIN points |-> points[i].y * points[i].y])
             A == n * sum_xy - sum_x * sum_y
             B == n * sum_x2 - sum_x * sum_x
             C == n * sum_y2 - sum_y * sum_y
         IN  IF B = 0 THEN TRUE
             ELSE IF C = 0 THEN TRUE
             ELSE 10 * A * A > 9 * B * C

(* The windows points[i:i+5] for i in range(len(points) - 5).  The         *)
(* coordinates of a curve given in polar form are not computed: on such a  *)
(* curve of 6 points or more the test may go either way (some_linear).     *)
has_linear_segments(curve, some_linear) ==
    IF Len(curve.points) < 6 THEN FALSE
    ELSE IF curve.form = "polar" THEN some_linear
    ELSE LET linear_segments ==
                 Cardinality({i \in 0 .. Len(curve.points) - 6 :
                                 is_linear_segment(SubSeq(curve.points, i + 1, i + 5))})
         IN  linear_segments > 0

(* returns ["complex"] along with the tags found *)
detect_curve_types_and_complex(curve, some_linear) ==
    IF Len(curve.points) < 10 THEN <<"simple">>
    ELSE Keep(is_circular_pattern(curve), "circular")
         \o Keep(is_spiral_pattern(curve), "spiral")
         \o Keep(is_petal_pattern(curve), "petal")
         \o Keep(has_linear_segments(curve, some_linear), "linear")
         \o <<"complex">>

detect_curve_types(curve, some_linear) ==
    IF Len(curve.points) < 10 THEN <<"simple">>
    ELSE LET curve_types == Keep(is_circular_pattern(curve), "circular")
                            \o Keep(is_spiral_pattern(curve), "spiral")
                            \o Keep(is_petal_pattern(curve), "petal")
                            \o Keep(has_linear_segments(curve, some_linear), "linear")
         IN  IF curve_types # <<>> THEN curve_types ELSE <<"complex">>

(* The curves handed to the recognizer. *)

(* the lattice point at distance d from the origin in direction dir:       *)
(* 0, 1, 2, 3 for +x, +y, -x, -y                                           *)
AxisPoint(dir, d) ==
    CASE dir = 0 -> Point2D(d, 0)
      [] dir = 1 -> Point2D(0, d)
      [] dir = 2 -> Point2D(-d, 0)
      [] dir = 3 -> Point2D(0, -d)

(* 8 points going twice round the origin, one axis after the other, at the *)
(* distances ds: their centroid is the origin when ds[1] + ds[5] =         *)
(* ds[3] + ds[7] and ds[2] + ds[6] = ds[4] + ds[8]                         *)
Rounds(ds) == [k \in 1 .. 8 |-> AxisPoint((k - 1) % 4, ds[k])]

Heads ==
    {<<>>, Rounds(<<1, 2, 3, 4, 5, 6, 3, 4>>), Rounds(<<3, 3, 3, 3, 3, 3, 3, 3>>)}

(* 4 points on the x axis at the distances a .. a + 3, outward or inward,  *)
(* on the sides +x, -x, -x, +x: their centroid is the origin               *)
Blocks ==
    UNION {{<<AxisPoint(0, a), AxisPoint(2, a + 1), AxisPoint(2, a + 2), AxisPoint(0, a + 3)>>,
            <<AxisPoint(0, a + 3), AxisPoint(2, a + 2), AxisPoint(2, a + 1), AxisPoint(0, a)>>} :
              a \in {1, 5}}

Tails == {Flatten(bs) : bs \in SeqsUpTo(Blocks, MaxTail)}

(* up to 3 further points at the origin *)
Origins == {[k \in 1 .. o |-> Point2D(0, 0)] : o \in 0 .. 3}

LatticeCurves ==
    {[form |-> "lattice", turn |-> 4, points |-> h \o tl \o os, some_linear |-> FALSE] :
        h \in Heads, tl \in Tails, os \in Origins}

(* the angle of sample k of N around a circle, in units of 1/(2N) turn *)
circle_angle(k, N) == IF 2 * k <= N THEN 2 * k ELSE 2 * k - 2 * N

(* What rounding adds to the distances of the samples of a perfect         *)
(* circle: nothing, or one unit to every other sample, or one and two      *)
(* units to two samples out of three.  The unit is 1/30.                   *)
circle_noise(k, noise) ==
    CASE noise = "none" -> 0
      [] noise = "alternating" -> k % 2
      [] noise = "sawtooth" -> k % 3

(* N samples at evenly spaced angles 2*pi*k/N of the circle of radius 3    *)
(* about the origin                                                        *)
Circle(N, noise) ==
    [k \in 1 .. N |-> [angle |-> circle_angle(k - 1, N),
                       distance |-> 3 * 30 + circle_noise(k - 1, noise)]]

CircleCurves ==
    {[form |-> "polar", turn |-> 2 * N, points |-> Circle(N, noise),
      some_linear |-> b, samples |-> N] :
        N \in 8 .. MaxSamples, noise \in {"none", "alternating", "sawtooth"}, b \in BOOLEAN}

(* m points going up and down by h, then l points on a line of the given   *)
(* slope                                                                   *)
ZigLine(m, h, l, slope) ==
    [k \in 1 .. m |-> Point2D(k - 1, h * ((k - 1) % 2))]
    \o [j \in 1 .. l |-> Point2D(m + j - 1, 10 + slope * (j - 1))]

ZigLineCurves ==
    {[form |-> "lattice", turn |-> 4, points |-> ZigLine(m, h, l, slope), some_linear |-> FALSE] :
        m \in 0 .. MaxZig, h \in {1, 3}, l \in 0 .. 6, slope \in 0 .. 2}

RecInputs ==
    {[fn |-> "detect_curve_types", curve_points |-> c] : c \in LatticeCurves \cup CircleCurves}
    \cup {[fn |-> "has_linear_segments", curve_points |-> c] : c \in ZigLineCurves}

InitRec ==
    /\ name = "Sample Square Loop"
    /\ kolam_type = "PULLI_KOLAM"
    /\ grid = PyNone
    /\ curves = <<>>
    /\ symmetries = <<>>
    /\ op = "init"
    /\ args \in RecInputs
    /\ ret = NoCall

call_detect_curve_types ==
    /\ op = "init"
    /\ args.fn = "detect_curve_types"
    /\ op' = "detect_curve_types"
    /\ ret' = Return(detect_curve_types(args.curve_points, args.curve_points.some_linear))
    /\ UNCHANGED <<name, kolam_type, grid, curves, symmetries, args>>

call_has_linear_segments ==
    /\ op = "init"
    /\ args.fn = "has_linear_segments"
    /\ op' = "has_linear_segments"
    /\ ret' = Return(has_linear_segments(args.curve_points, args.curve_points.some_linear))
    /\ UNCHANGED <<name, kolam_type, grid, curves, symmetries, args>>

NextRec ==
    \/ call_detect_curve_types
    \/ call_has_linear_segments

SpecRec == InitRec /\ [][NextRec]_vars

----------------------------------------------------------------------------
(* Claims about SymmetryAnalyzer, checked under SpecSym.                   *)

(* C2, as stated: for every point list of any length and every center,     *)
(* detect_symmetries(apply_symmetry(points, center, REFLECTIONAL_VERTICAL)) *)
(* contains REFLECTIONAL_VERTICAL.                                         *)
C2_RoundTripAnyLength ==
    (op = "detect_symmetries" /\ args.via = "REFLECTIONAL_VERTICAL")
        => (ret.kind = "return" /\ "REFLECTIONAL_VERTICAL" \in Range(ret.val))

(* C2, amended: for every non-empty point list and every center,           *)
(* detect_symmetries(apply_symmetry(points, center, REFLECTIONAL_VERTICAL)) *)
(* contains REFLECTIONAL_VERTICAL; for the empty list the result is empty. *)
C2_RoundTripNonEmpty ==
    (op = "detect_symmetries" /\ args.via = "REFLECTIONAL_VERTICAL")
        => /\ ret.kind = "return"
           /\ args.src # <<>> => "REFLECTIONAL_VERTICAL" \in Range(ret.val)
           /\ args.src = <<>> => ret.val = <<>>

(* a round trip on two distinct points that are not mirror images of each  *)
(* other in the center line.                                               *)
C2_Witness ==
    /\ op = "detect_symmetries"
    /\ args.via = "REFLECTIONAL_VERTICAL"
    /\ Len(args.src) = 2
    /\ args.src[1].y # args.src[2].y
    /\ args.src[1].x # 2 * args.center.x - args.src[2].x
    /\ Len(args.points) = 4
    /\ "REFLECTIONAL_VERTICAL" \in Range(ret.val)
    /\ "REFLECTIONAL_HORIZONTAL" \notin Range(ret.val)

(* C9: detect_symmetries on the 4 corners of an axis-aligned square        *)
(* centred at the origin (in any order) returns a list containing          *)
(* ROTATIONAL_4, REFLECTIONAL_VERTICAL and REFLECTIONAL_HORIZONTAL.        *)
C9_SquareSymmetries ==
    (op = "detect_symmetries" /\ args.via = "none" /\ IsSquare(args.points))
        => /\ ret.kind = "return"
           /\ {"ROTATIONAL_4", "REFLECTIONAL_VERTICAL", "REFLECTIONAL_HORIZONTAL"}
                  \subseteq Range(ret.val)

C9_Witness ==
    /\ op = "detect_symmetries"
    /\ args.points = <<Point2D(2, 2), Point2D(-2, 2), Point2D(-2, -2), Point2D(2, -2)>>
    /\ ret = Return(<<"ROTATIONAL_2", "ROTATIONAL_4", "REFLECTIONAL_VERTICAL",
                      "REFLECTIONAL_HORIZONTAL">>)

(* C10: detect_symmetries on an empty point list returns an empty result   *)
(* and does not raise.                                                     *)
C10_EmptyDetect ==
    (op = "detect_symmetries" /\ args.points = <<>>) => ret = Return(<<>>)

C10_Witness ==
    /\ op = "detect_symmetries"
    /\ args.via = "none"
    /\ args.points = <<>>
    /\ ret.kind = "return"

(* C12: apply_symmetry(points, center, kind), n being len(points), returns *)
(* for ROTATIONAL_4 the 4n points made of the input followed by its copies *)
(* turned about center by 90, 180 and 270 degrees, for                     *)
(* REFLECTIONAL_VERTICAL (REFLECTIONAL_HORIZONTAL) the 2n points made of   *)
(* the input followed by its mirror image x' = 2*cx - x (y' = 2*cy - y),   *)
(* every copy in input order, and for every other kind the input as it is. *)
C12_ApplySymmetryShape ==
    op = "apply_symmetry"
        => LET src == args.src
               n == Len(src)
               c == args.center
               out == ret.val
           IN  /\ ret.kind = "return"
               /\ args.via = "ROTATIONAL_4" =>
                     /\ Len(out) = 4 * n
                     /\ \A k \in 1 .. n :
                            /\ out[k] = src[k]
                            /\ out[n + k] = Point2D(c.x - (src[k].y - c.y),
                                                    c.y + (src[k].x - c.x))
                            /\ out[2 * n + k] = Point2D(2 * c.x - src[k].x,
                                                        2 * c.y - src[k].y)
                            /\ out[3 * n + k] = Point2D(c.x + (src[k].y - c.y),
                                                        c.y - (src[k].x - c.x))
               /\ args.via = "REFLECTIONAL_VERTICAL" =>
                     /\ Len(out) = 2 * n
                     /\ \A k \in 1 .. n :
                            /\ out[k] = src[k]
                            /\ out[n + k] = Point2D(2 * c.x - src[k].x, src[k].y)
               /\ args.via = "REFLECTIONAL_HORIZONTAL" =>
                     /\ Len(out) = 2 * n
                     /\ \A k \in 1 .. n :
                            /\ out[k] = src[k]
                            /\ out[n + k] = Point2D(src[k].x, 2 * c.y - src[k].y)
               /\ args.via \notin {"ROTATIONAL_4", "REFLECTIONAL_VERTICAL",
                                   "REFLECTIONAL_HORIZONTAL"} => out = src

(* a quarter-turn synthesis of two distinct points about a center that is  *)
(* not the origin                                                          *)
C12_Witness ==
    /\ op = "apply_symmetry"
    /\ args.via = "ROTATIONAL_4"
    /\ args.center = Point2D(1, 0)
    /\ args.src = <<Point2D(1, 1), Point2D(-1, 0)>>
    /\ ret = Return(<<Point2D(1, 1), Point2D(-1, 0), Point2D(0, 0), Point2D(1, -2),
                      Point2D(1, -1), Point2D(3, 0), Point2D(2, 0), Point2D(1, 2)>>)

----------------------------------------------------------------------------
(* Claims about KolamPattern, checked under Spec.                          *)

(* the five kinds detect_symmetries tests for *)
DetectedKinds ==
    {"ROTATIONAL_2", "ROTATIONAL_4", "ROTATIONAL_8", "REFLECTIONAL_VERTICAL",
     "REFLECTIONAL_HORIZONTAL"}

OnlyDetectedKindsOnce(s) ==
    /\ Range(s) \subseteq DetectedKinds
    /\ \A i, j \in DOMAIN s : s[i] = s[j] => i = j

(* C11: in every reachable state the pattern's symmetries, which are what  *)
(* detect_symmetries returned to the last analysis that found points,      *)
(* contain only ROTATIONAL_2, ROTATIONAL_4, ROTATIONAL_8,                  *)
(* REFLECTIONAL_VERTICAL and REFLECTIONAL_HORIZONTAL, each at most once;   *)
(* REFLECTIONAL_DIAGONAL, TRANSLATIONAL and POINT never appear.            *)
C11_OnlyFiveKinds ==
    /\ OnlyDetectedKindsOnce(symmetries)
    /\ op = "analyze_symmetries" => ret.kind = "return"

(* an analysis of two distinct points after one that found all five kinds: *)
(* it finds the 2-fold rotation only                                       *)
C11_Witness ==
    /\ op = "analyze_symmetries"
    /\ curves = <<<<Point2D(0, 0)>>, <<Point2D(5, -3)>>>>
    /\ symmetries = <<"ROTATIONAL_2">>

(* C3: right after analyze_symmetries returns, symmetries equals           *)
(* detect_symmetries of the concatenation of the points of all current     *)
(* curves, also when the curves hold no points.                            *)
C3_SymmetriesAreDetectOfCurves ==
    op = "analyze_symmetries"
        => /\ ret.kind = "return"
           /\ symmetries = detect_symmetries(Flatten(curves)).val

(* C6: add_curve, analyze_symmetries and get_bounding_box never raise,     *)
(* whatever curves were added, curves of 0 or 1 points included.           *)
C6_DegenerateCurvesNeverRaise ==
    op \in {"add_curve", "analyze_symmetries", "get_bounding_box"} => ret.kind # "raise"

(* C7: get_bounding_box returns ((0,0),(0,0)) when the pattern has no      *)
(* curves, and otherwise the componentwise minimum and maximum over all    *)
(* points of all curves, so that every stored point lies in the box.       *)
C7_BoundingBox ==
    op = "get_bounding_box"
        => /\ ret.kind = "return"
           /\ curves = <<>> => ret.val = <<Point2D(0, 0), Point2D(0, 0)>>
           /\ curves # <<>> =>
                LET all_points == Range(Flatten(curves))
                IN  /\ \A p \in all_points :
                           /\ ret.val[1].x <= p.x /\ p.x <= ret.val[2].x
                           /\ ret.val[1].y <= p.y /\ p.y <= ret.val[2].y
                    /\ ret.val[1].x \in {p.x : p \in all_points}
                    /\ ret.val[1].y \in {p.y : p \in all_points}
                    /\ ret.val[2].x \in {p.x : p \in all_points}
                    /\ ret.val[2].y \in {p.y : p \in all_points}

(* C15: add_curve(c) appends c as the new last element of curves, leaves   *)
(* the curves added before and their order as they were, and leaves        *)
(* symmetries, grid, name and kolam_type unchanged: the symmetries are not *)
(* refreshed by it.                                                        *)
C15_AddCurveFrame ==
    [][op' = "add_curve"
          => /\ curves' = Append(curves, args'.curve_points)
             /\ UNCHANGED <<symmetries, grid, name, kolam_type>>]_vars

(* a curve added after an analysis: the symmetries still are those of the  *)
(* curves before it                                                        *)
C15_Witness ==
    /\ op = "add_curve"
    /\ Len(curves) = 2
    /\ curves[2] = args.curve_points
    /\ symmetries = detect_symmetries(curves[1]).val
    /\ symmetries # detect_symmetries(Flatten(curves)).val

(* C19: a pattern exclusively owns its curves: what the caller does to the *)
(* list it passed to add_curve, after the call, does not change curves.    *)
C19_ExclusiveOwnership ==
    [][op' \in {"caller_clears_list", "caller_appends_to_list"} => curves' = curves]_vars

----------------------------------------------------------------------------
(* Claims about DotGrid, checked under SpecGrid.                           *)

(* C4: constructing a grid with rows <= 0 or cols <= 0 fails with          *)
(* InvalidGridSize, and no grid with a non-positive dimension ever exists. *)
C4_InvalidGridSize ==
    /\ grid # PyNone => (grid.rows > 0 /\ grid.cols > 0)
    /\ (op = "set_grid" /\ (args.rows <= 0 \/ args.cols <= 0))
           => ret = Raise("InvalidGridSize")

(* C8: get_dot(r, c) is the point (c*spacing, r*spacing) when              *)
(* 0 <= r < rows and 0 <= c < cols, and None otherwise, negative indices   *)
(* included; it never raises.                                              *)
C8_GetDot ==
    op = "get_dot"
        => ret = Return(IF /\ 0 <= args.row /\ args.row < grid.rows
                           /\ 0 <= args.col /\ args.col < grid.cols
                        THEN Point2D(args.col * grid.spacing, args.row * grid.spacing)
                        ELSE PyNone)

C8_Witness ==
    /\ op = "get_dot"
    /\ grid.rows = 2 /\ grid.cols = 3 /\ grid.spacing = 15
    /\ args.row = 1 /\ args.col = 2
    /\ ret = Return(Point2D(30, 15))

(* the cell a dot of the grid g stands at *)
CellOf(g, dot) == <<dot.y \div g.spacing, dot.x \div g.spacing>>

(* the distance max(|r - row|, |c - col|) *)
Chebyshev(r, c, row, col) ==
    LET dr == IF r >= row THEN r - row ELSE row - r
        dc == IF c >= col THEN c - col ELSE col - c
    IN  IF dr >= dc THEN dr ELSE dc

(* C18: get_neighbors(row, col, radius) returns the dots of exactly the    *)
(* in-bounds cells (r, c) with max(|r - row|, |c - col|) <= radius other   *)
(* than (row, col) itself, each once, by ascending row and then ascending  *)
(* column, for every (row, col), those outside the grid included; the grid *)
(* still holds the dot (c*spacing, r*spacing) at every cell.               *)
C18_GetNeighbors ==
    op = "get_neighbors"
        => LET out == ret.val
               cells == {rc \in (0 .. grid.rows - 1) \X (0 .. grid.cols - 1) :
                            /\ Chebyshev(rc[1], rc[2], args.row, args.col) <= args.radius
                            /\ rc # <<args.row, args.col>>}
           IN  /\ ret.kind = "return"
               /\ Len(out) = Cardinality(cells)
               /\ \A k \in DOMAIN out :
                      /\ CellOf(grid, out[k]) \in cells
                      /\ out[k] = Point2D(CellOf(grid, out[k])[2] * grid.spacing,
                                          CellOf(grid, out[k])[1] * grid.spacing)
               /\ \A i, j \in DOMAIN out :
                      i < j => \/ CellOf(grid, out[i])[1] < CellOf(grid, out[j])[1]
                               \/ /\ CellOf(grid, out[i])[1] = CellOf(grid, out[j])[1]
                                  /\ CellOf(grid, out[i])[2] < CellOf(grid, out[j])[2]
               /\ \A r \in 0 .. grid.rows - 1, c \in 0 .. grid.cols - 1 :
                      grid.dots[r + 1][c + 1] = Point2D(c * grid.spacing, r * grid.spacing)

(* the 8 cells around the middle of a 3x3 grid, and the neighbours of a    *)
(* cell that lies outside the grid                                         *)
C18_Witness ==
    /\ op = "get_neighbors"
    /\ grid.rows = 3 /\ grid.cols = 3 /\ grid.spacing = 10
    /\ \/ /\ args = [fn |-> "get_neighbors", row |-> 1, col |-> 1, radius |-> 1]
          /\ ret = Return(<<Point2D(0, 0), Point2D(10, 0), Point2D(20, 0),
                            Point2D(0, 10), Point2D(20, 10),
                            Point2D(0, 20), Point2D(10, 20), Point2D(20, 20)>>)
       \/ /\ args = [fn |-> "get_neighbors", row |-> -1, col |-> 3, radius |-> 2]
          /\ ret = Return(<<Point2D(10, 0), Point2D(20, 0), Point2D(10, 10),
                            Point2D(20, 10)>>)

----------------------------------------------------------------------------
(* Claims about CurveGenerator, checked under SpecCurve.                   *)

(* the sample before and the sample after sample k of a closed curve of    *)
(* PetalPoints samples                                                     *)
Before(k) == IF k = 1 THEN PetalPoints ELSE k - 1

After(k) == IF k = PetalPoints THEN 1 ELSE k + 1

(* the samples whose r is greater than the r of both neighbours *)
LocalMaxima(curve) ==
    {k \in DOMAIN curve : /\ petal_r_greater(curve[k], curve[Before(k)])
                          /\ petal_r_greater(curve[k], curve[After(k)])}

(* the samples whose r is greater than or tied with the r of both          *)
(* neighbours                                                              *)
LocalMaximaOrTies(curve) ==
    {k \in DOMAIN curve :
        /\ petal_r_greater(curve[k], curve[Before(k)])
              \/ petal_r_tied(curve[k], curve[Before(k)])
        /\ petal_r_greater(curve[k], curve[After(k)])
              \/ petal_r_tied(curve[k], curve[After(k)])}

IsPetalCall ==
    /\ op = "generate_petal_pattern"
    /\ args.radius > 0
    /\ args.num_petals % 2 = 0
    /\ args.num_petals >= 4

(* C16, as stated: for every even n >= 4 and radius > 0 the radius profile *)
(* of generate_petal_pattern(center, radius, n), taken around the closed   *)
(* curve, has exactly n local maxima, whichever way samples of tied r      *)
(* compare.                                                                *)
C16_PetalCount ==
    IsPetalCall
        => /\ ret.kind = "return"
           /\ Cardinality(LocalMaxima(ret.val)) <= args.num_petals
           /\ args.num_petals <= Cardinality(LocalMaximaOrTies(ret.val))

(* C16, amended: for every even n with 4 <= n <= PetalPoints / 2 that is   *)
(* not a multiple of 16, and radius > 0, the radius profile of the         *)
(* PetalPoints samples, taken around the closed curve, has exactly n local *)
(* maxima, none of them a tie; the one at sample 0 has no sample before    *)
(* it, so n - 1 of them lie inside the sequence.                           *)
C16_PetalCountInRange ==
    (IsPetalCall /\ 2 * args.num_petals <= PetalPoints /\ args.num_petals % 16 # 0)
        => /\ ret.kind = "return"
           /\ Len(ret.val) = PetalPoints
           /\ Cardinality(LocalMaxima(ret.val)) = args.num_petals
           /\ LocalMaximaOrTies(ret.val) = LocalMaxima(ret.val)
           /\ 1 \in LocalMaxima(ret.val)
           /\ PetalPoints \notin LocalMaxima(ret.val)

(* the 12 petals of n = 12, whose maxima fall between samples 2 times in 3 *)
C16_Witness ==
    /\ op = "generate_petal_pattern"
    /\ args.num_petals = 12
    /\ args.radius = 18
    /\ LocalMaxima(ret.val) = {1, 18, 34, 51, 68, 84, 101, 118, 134, 151, 168, 184}

----------------------------------------------------------------------------
(* Claims about KolamGenerator, checked under SpecGen.                     *)

(* the dot the k-th curve of a pattern starts around *)
Anchor(pattern, k) == pattern.curves[k][1].dot

IsPulliBasic5x5 ==
    /\ op = "generate_pulli_kolam"
    /\ args.rows = 5 /\ args.cols = 5 /\ args.dot_pattern = "basic"

(* C1, as stated: generate_pulli_kolam(5, 5, "basic") returns a pattern    *)
(* of exactly 1 curve, the loop anchored at cell (1,1).                    *)
C1_OneLoop ==
    IsPulliBasic5x5
        => /\ ret.kind = "return"
           /\ Len(ret.val.curves) = 1
           /\ Anchor(ret.val, 1) = Point2D(1 * 20, 1 * 20)

(* C1, amended: generate_pulli_kolam(5, 5, "basic") returns a pattern of   *)
(* exactly 4 curves, the loops anchored at cells (1,1), (1,3), (3,1) and   *)
(* (3,3) in this order, each of 5 * NumPoints points.                      *)
C1_FourLoops ==
    IsPulliBasic5x5
        => /\ ret.kind = "return"
           /\ Len(ret.val.curves) = 4
           /\ Anchor(ret.val, 1) = Point2D(1 * 20, 1 * 20)
           /\ Anchor(ret.val, 2) = Point2D(3 * 20, 1 * 20)
           /\ Anchor(ret.val, 3) = Point2D(1 * 20, 3 * 20)
           /\ Anchor(ret.val, 4) = Point2D(3 * 20, 3 * 20)
           /\ \A k \in 1 .. 4 : Len(ret.val.curves[k]) = 5 * NumPoints

C1_Witness ==
    /\ IsPulliBasic5x5
    /\ ret.kind = "return"
    /\ ret.val.grid.rows = 5
    /\ Len(ret.val.curves) = 4
    /\ ret.val.curves[4][5 * NumPoints].dot = Point2D(3 * 20, 3 * 20)

(* the generator calls *)
Generators ==
    {"generate_pulli_kolam", "generate_sikku_kolam", "generate_kambi_kolam",
     "generate_flower_kolam", "generate_mandala_kolam"}

(* C14: every style generator, whatever its parameters and variant string, *)
(* calls analyze_symmetries exactly once, after the last add_curve and     *)
(* just before it returns the pattern: the calls made on the returned      *)
(* pattern are set_grid, one add_curve per curve it holds, and then        *)
(* analyze_symmetries; its symmetries are those found by that analysis of  *)
(* its final curves (none when the curves hold no point).                  *)
C14_AnalyzedOnceAtEnd ==
    op \in Generators
        => LET pattern == ret.val
               calls == pattern.calls
           IN  /\ ret.kind = "return"
               /\ Len(calls) = Len(pattern.curves) + 2
               /\ calls[1] = "set_grid"
               /\ \A k \in 2 .. Len(calls) - 1 : calls[k] = "add_curve"
               /\ calls[Len(calls)] = "analyze_symmetries"
               /\ pattern.symmetries \in DetectableLists
               /\ Flatten(pattern.curves) = <<>> => pattern.symmetries = <<>>

(* a star of 8 rays on a 5x5 grid, analyzed once after the 8th ray *)
C14_Witness ==
    /\ op = "generate_kambi_kolam"
    /\ args.grid_size = 5 /\ args.line_style = "star"
    /\ Len(ret.val.curves) = 8
    /\ ret.val.curves[1] = <<Point2D(20, 20), Point2D(10, 10), Point2D(0, 0)>>
    /\ Len(ret.val.calls) = 10
    /\ ret.val.calls[10] = "analyze_symmetries"
    /\ ret.val.symmetries = <<"ROTATIONAL_2", "ROTATIONAL_4", "REFLECTIONAL_VERTICAL",
                               "REFLECTIONAL_HORIZONTAL">>

(* the parameters the spec names malformed: a count that is not positive *)
Malformed ==
    \/ op = "generate_flower_kolam" /\ args.layers <= 0
    \/ op = "generate_sikku_kolam" /\ args.complexity <= 0
    \/ op = "generate_mandala_kolam" /\ (args.rings <= 0 \/ args.segments <= 0)

(* C5: a style generator called with malformed parameters fails with       *)
(* InvalidParameter and returns no pattern.                                *)
C5_MalformedRejected == Malformed => ret = Raise("InvalidParameter")

----------------------------------------------------------------------------
(* Claims about PatternRecognizer, checked under SpecRec.                  *)

IsDetectCall == op = "detect_curve_types" /\ ret.kind = "return"

TagOrder == <<"circular", "spiral", "petal", "linear">>

PassedTags(curve) ==
    {tag \in Range(TagOrder) :
        \/ tag = "circular" /\ is_circular_pattern(curve)
        \/ tag = "spiral" /\ is_spiral_pattern(curve)
        \/ tag = "petal" /\ is_petal_pattern(curve)
        \/ tag = "linear" /\ has_linear_segments(curve, curve.some_linear)}

(* C13: detect_curve_types returns exactly ["simple"] for a curve of fewer *)
(* than 10 points, the empty curve included; otherwise the tags of all the *)
(* tests that passed, in the order circular, spiral, petal, linear, or     *)
(* exactly ["complex"] when none passed.  The result is never empty and    *)
(* never has "simple" or "complex" next to another tag.                    *)
C13_DetectCurveTypes ==
    op = "detect_curve_types" =>
        /\ ret.kind = "return"
        /\ ret.val # <<>>
        /\ Len(ret.val) > 1 => ~ \E i \in DOMAIN ret.val : ret.val[i] \in {"simple", "complex"}
        /\ Len(args.curve_points.points) < 10 => ret.val = <<"simple">>
        /\ Len(args.curve_points.points) >= 10 =>
               LET passed == PassedTags(args.curve_points)
                   is_passed(tag) == tag \in passed
               IN  IF passed = {} THEN ret.val = <<"complex">>
                   ELSE ret.val = SelectSeq(TagOrder, is_passed)

(* a curve of 20 points that passes two of the tests *)
C13_Witness ==
    /\ IsDetectCall
    /\ Len(args.curve_points.points) = 20
    /\ ret.val = <<"spiral", "linear">>

(* C17: on N >= 20 samples at evenly spaced angles of the circle of radius *)
(* 3 about the origin, detect_curve_types returns a list that contains     *)
(* "circular" and does not contain "spiral".                               *)
C17_PerfectCircle ==
    (IsDetectCall /\ args.curve_points.form = "polar" /\ args.curve_points.samples >= 20) =>
        /\ \E i \in DOMAIN ret.val : ret.val[i] = "circular"
        /\ ~ \E i \in DOMAIN ret.val : ret.val[i] = "spiral"

(* 20 samples whose distance grows on 13 of the 19 consecutive pairs *)
C17_Witness ==
    /\ IsDetectCall
    /\ args.curve_points.form = "polar"
    /\ args.curve_points.samples = 20
    /\ distance_trend(args.curve_points.points) = 13
    /\ ret.val[1] = "circular"

(* C20: for a curve of n >= 20 points, the radius condition of the spiral  *)
(* test holds exactly when the distance to the centroid grows on more than *)
(* 0.6 * (n - 1) of the n - 1 consecutive pairs of points.  On a curve     *)
(* whose angular progression is more than a full turn the radius condition *)
(* is what decides the tag "spiral".                                       *)
C20_SpiralRadiusCondition ==
    (/\ IsDetectCall
     /\ Len(args.curve_points.points) >= 20
     /\ Abs(angle_progression(polar_about_centroid(args.curve_points), args.curve_points.turn))
            > args.curve_points.turn) =>
        ((\E i \in DOMAIN ret.val : ret.val[i] = "spiral")
            <=> 10 * distance_trend(polar_about_centroid(args.curve_points))
                    > 6 * (Len(args.curve_points.points) - 1))

(* C21: on a curve of n >= 6 points the linear test fires exactly when one *)
(* of the n - 4 windows of 5 consecutive points, the one that ends at the  *)
(* last point included, passes the line fit; a curve of fewer than 6       *)
(* points is never linear.                                                 *)
C21_LinearWindows ==
    (op = "has_linear_segments" /\ ret.kind = "return") =>
        LET points == args.curve_points.points
        IN  IF Len(points) < 6 THEN ret.val = FALSE
            ELSE ret.val <=> \E i \in 0 .. Len(points) - 5 :
                                is_linear_segment(SubSeq(points, i + 1, i + 5))

----------------------------------------------------------------------------
(* Claims about generate_loop_around_dots and generate_spiral_pattern,     *)
(* checked under SpecCurve.                                                *)

InBounds(g, cell) == 0 <= cell[1] /\ cell[1] < g.rows /\ 0 <= cell[2] /\ cell[2] < g.cols

(* the dot of the grid at a cell: x from the column, y from the row *)
DotAt(g, cell) == Point2D(cell[2] * g.spacing, cell[1] * g.spacing)

(* the number of points emitted before the block of cell i *)
BlockStart(g, cells, i) ==
    NumPoints * Cardinality({k \in 1 .. i - 1 : InBounds(g, cells[k])})

(* C22: generate_loop_around_dots(cells, radius) does not raise and        *)
(* returns 20 points for every entry of cells that is in bounds, repeated  *)
(* entries counted each time, block after block in the order of cells,     *)
(* every point of a block at distance radius from the dot of its cell;     *)
(* cells out of bounds add nothing, no cells give no points, and the grid  *)
(* is unchanged.                                                           *)
C22_LoopBlocks ==
    op = "generate_loop_around_dots" =>
        LET cells == args.dot_positions
        IN  /\ ret.kind = "return"
            /\ Len(ret.val) = 20 * Cardinality({k \in DOMAIN cells : InBounds(grid, cells[k])})
            /\ \A i \in DOMAIN cells : InBounds(grid, cells[i]) =>
                   \A j \in 1 .. 20 :
                       /\ ret.val[BlockStart(grid, cells, i) + j].dot = DotAt(grid, cells[i])
                       /\ ret.val[BlockStart(grid, cells, i) + j].radius = args.curve_radius
            /\ grid = DotGrid(5, 5, 20)

(* a cell, a cell out of bounds, and the first cell again: 40 points *)
C22_Witness ==
    /\ op = "generate_loop_around_dots"
    /\ args.dot_positions = <<<<1, 1>>, <<-1, 0>>, <<1, 1>>>>
    /\ Len(ret.val) = 40
    /\ ret.val[40].dot = Point2D(20, 20)

(* C23: every in-bounds cell that has a following cell in the list gets an *)
(* arc of 270 degrees that starts 90 degrees past the direction toward the *)
(* dot of the next cell, whatever the next cell is, and only the last cell *)
(* of the list gets the full turn starting at 0 degrees.                   *)
C23_LoopArcSweep ==
    (op = "generate_loop_around_dots" /\ ret.kind = "return") =>
        LET cells == args.dot_positions
        IN  \A i \in DOMAIN cells : InBounds(grid, cells[i]) =>
                LET first == ret.val[BlockStart(grid, cells, i) + 1]
                    last == ret.val[BlockStart(grid, cells, i) + NumPoints]
                IN  IF i < Len(cells)
                    THEN /\ first.angle = FullTurn \div 4
                         /\ last.angle - first.angle = (3 * FullTurn) \div 4
                         /\ InBounds(grid, cells[i + 1]) =>
                                first.base = [dy |-> DotAt(grid, cells[i + 1]).y - first.dot.y,
                                              dx |-> DotAt(grid, cells[i + 1]).x - first.dot.x]
                    ELSE /\ first.angle = 0
                         /\ last.angle = FullTurn
                         /\ first.base = [zero |-> TRUE]

(* round(num / den) of Python for num >= 0, den > 0: to the nearest whole  *)
(* number, a half to the even one                                          *)
PyRound(num, den) ==
    LET q == num \div den
        r == num % den
    IN  IF 2 * r < den THEN q
        ELSE IF 2 * r > den THEN q + 1
        ELSE IF q % 2 = 0 THEN q ELSE q + 1

(* C24: generate_spiral_pattern(center, radius, turns) returns exactly     *)
(* round(100 * turns) points for every turns >= 0, also when 100 * turns   *)
(* is not a whole number; sample i of numPoints has t = i / numPoints in   *)
(* [0, 1) and distance radius * t from center, so the first point is at    *)
(* the center and the distances never decrease.                            *)
C24_SpiralSamples ==
    (op = "generate_spiral_pattern" /\ ret.kind = "return") =>
        /\ Len(ret.val) = PyRound(100 * args.turns, 8)
        /\ \A k \in DOMAIN ret.val :
               /\ ret.val[k].i = k - 1
               /\ ret.val[k].n = Len(ret.val)
               /\ ret.val[k].i < ret.val[k].n
               /\ ret.val[k].radius = args.radius
               /\ ret.val[k].center = args.center

----------------------------------------------------------------------------
(* Claims about generate_kambi_kolam and the "diamond" variant of          *)
(* generate_pulli_kolam, checked under SpecGen.  The kambi grid has        *)
(* spacing 1.0, 10 tenths.                                                 *)

IsKambiCall(line_style) ==
    /\ op = "generate_kambi_kolam"
    /\ ret.kind = "return"
    /\ args.line_style = line_style

(* the dot of the n by n kambi grid at cell (r, c) *)
KambiDot(r, c) == Point2D(c * 10, r * 10)

(* the number of cells in bounds after the center cell in direction d *)
RayCells(n, d) ==
    Cardinality({k \in 1 .. n :
                    /\ 0 <= (n \div 2) + k * d[1] /\ (n \div 2) + k * d[1] < n
                    /\ 0 <= (n \div 2) + k * d[2] /\ (n \div 2) + k * d[2] < n})

(* the center dot and then the dots of the cells after it in direction d *)
StarRay(n, d) ==
    [k \in 1 .. RayCells(n, d) + 1 |->
        KambiDot((n \div 2) + (k - 1) * d[1], (n \div 2) + (k - 1) * d[2])]

(* C25: generate_kambi_kolam(n, "star") adds exactly 8 ray curves for      *)
(* every grid size n >= 1, one per direction; each ray starts with the dot *)
(* of the center cell (n // 2, n // 2) and goes on with the dots of the    *)
(* next cells in its direction, in order, up to the last one in bounds.    *)
C25_StarRays ==
    (IsKambiCall("star") /\ args.grid_size >= 1) =>
        /\ Len(ret.val.curves) = 8
        /\ \A k \in 1 .. 8 : ret.val.curves[k] = StarRay(args.grid_size, directions[k])

(* the rows 0, 2, 4, ... below n *)
EvenIndexes(n) == [k \in 1 .. (n + 1) \div 2 |-> 2 * (k - 1)]

(* the dots of the diagonal c = r + offset, in row order *)
Diagonal(n, offset) ==
    LET first == IF offset >= 0 THEN 0 ELSE -offset
        count == IF offset >= 0 THEN n - offset ELSE n + offset
    IN  [k \in 1 .. count |-> KambiDot(first + k - 1, first + k - 1 + offset)]

(* C26: generate_kambi_kolam(n, "geometric") adds, in this order, one      *)
(* curve per even row holding the n dots of the row in column order, one   *)
(* curve per even column holding its n dots in row order, and one curve    *)
(* for every diagonal of constant row-col offset, for each offset in       *)
(* -(n-1) .. n-1, holding the dots of the diagonal in row order.           *)
C26_GeometricLines ==
    (IsKambiCall("geometric") /\ args.grid_size >= 1) =>
        LET n == args.grid_size
            even == EvenIndexes(n)
        IN  ret.val.curves =
                [k \in DOMAIN even |-> [j \in 1 .. n |-> KambiDot(even[k], j - 1)]]
                \o [k \in DOMAIN even |-> [j \in 1 .. n |-> KambiDot(j - 1, even[k])]]
                \o [k \in 1 .. 2 * n - 1 |-> Diagonal(n, k - n)]

(* the four cells at distance s from the center cell, and the first again *)
DiamondRing(rows, cols, s) ==
    <<<<(rows \div 2) - s, cols \div 2>>, <<rows \div 2, (cols \div 2) + s>>,
      <<(rows \div 2) + s, cols \div 2>>, <<rows \div 2, (cols \div 2) - s>>,
      <<(rows \div 2) - s, cols \div 2>>>>

(* C27: generate_pulli_kolam(rows, cols, "diamond") adds one curve per     *)
(* size step s = 1 .. min(rows, cols) // 2 - 1; for every such s the cells *)
(* top, right, bottom and left at distance s from the center cell          *)
(* (rows // 2, cols // 2) are all in bounds, the curve loops around those  *)
(* four in that order and then around the top cell again, and has exactly  *)
(* 100 points.  The grid has spacing 2.0, 20 tenths.                       *)
C27_DiamondRings ==
    (op = "generate_pulli_kolam" /\ args.dot_pattern = "diamond") =>
        LET steps == PyMin(args.rows, args.cols) \div 2 - 1
            pattern == ret.val
        IN  /\ ret.kind = "return"
            /\ Len(pattern.curves) = (IF steps > 0 THEN steps ELSE 0)
            /\ \A s \in 1 .. steps :
                   LET ring == DiamondRing(args.rows, args.cols, s)
                   IN  /\ \A b \in 1 .. 5 : InBounds(pattern.grid, ring[b])
                       /\ Len(pattern.curves[s]) = 100
                       /\ \A b \in 1 .. 5 : \A j \in 1 .. 20 :
                              pattern.curves[s][20 * (b - 1) + j].dot
                                  = DotAt(pattern.grid, ring[b])

(* two rings on a 6 by 7 grid, the second through the cells at distance 2  *)
(* from the center cell (3, 3)                                             *)
C27_Witness ==
    /\ op = "generate_pulli_kolam"
    /\ args.dot_pattern = "diamond"
    /\ args.rows = 6 /\ args.cols = 7
    /\ Len(ret.val.curves) = 2
    /\ ret.val.curves[2][1].dot = Point2D(60, 20)
    /\ ret.val.curves[2][100].dot = Point2D(60, 20)

----------------------------------------------------------------------------
(* Claim about the ray walk of generate_kambi_kolam, checked under         *)
(* SpecStar.                                                               *)

(* C28: the `while True` loop of generate_kambi_kolam(n, "star")           *)
(* terminates for every grid size n >= 0 and each of the 8 directions:     *)
(* every pass moves the cell by a non-zero direction, get_dot returns None *)
(* after at most n passes that found a dot, and the generator returns.     *)
C28_RayWalkTerminates ==
    /\ [](op = "while" => args.steps <= args.grid_size)
    /\ <>(op = "generate_kambi_kolam" /\ ret.kind = "return")

(* returned from a 5 by 5 grid with the 8 rays of 3 dots *)
C28_Witness ==
    /\ op = "generate_kambi_kolam"
    /\ ret.kind = "return"
    /\ args.grid_size = 5
    /\ args.k = 8 /\ args.steps = 2
    /\ Len(ret.val.curves) = 8

----------------------------------------------------------------------------
(* Further claims about SymmetryAnalyzer, checked under SpecSym.           *)

Contains(s, kind) == \E i \in DOMAIN s : s[i] = kind

(* C29: for every non-empty point list and every center,                   *)
(* detect_symmetries(apply_symmetry(points, center, ROTATIONAL_4))         *)
(* contains both ROTATIONAL_4 and ROTATIONAL_2: the centroid of the four   *)
(* rotated copies is the center, so the set is found to have the rotation  *)
(* it was made with.                                                       *)
C29_Rotational4RoundTrip ==
    (op = "detect_symmetries" /\ args.via = "ROTATIONAL_4" /\ args.src # <<>>) =>
        /\ ret.kind = "return"
        /\ Contains(ret.val, "ROTATIONAL_4")
        /\ Contains(ret.val, "ROTATIONAL_2")

(* two points off the center, rotated about it: the 8 points are found to  *)
(* have the 4-fold and the 2-fold rotation (and both reflections)          *)
C29_Witness ==
    /\ op = "detect_symmetries"
    /\ args.via = "ROTATIONAL_4"
    /\ args.src = <<Point2D(1, 0), Point2D(-1, 1)>>
    /\ args.center = Point2D(0, 1)
    /\ Len(args.points) = 8
    /\ ret = Return(<<"ROTATIONAL_2", "ROTATIONAL_4", "REFLECTIONAL_VERTICAL",
                      "REFLECTIONAL_HORIZONTAL">>)

(* C30: for a non-empty point list whose points are all the same point,    *)
(* one point or several copies of it, detect_symmetries returns the five   *)
(* kinds it can detect, in the order ROTATIONAL_2, ROTATIONAL_4,           *)
(* ROTATIONAL_8, REFLECTIONAL_VERTICAL, REFLECTIONAL_HORIZONTAL.           *)
C30_SamePointAllKinds ==
    (/\ op = "detect_symmetries"
     /\ args.points # <<>>
     /\ \A i \in DOMAIN args.points : args.points[i] = args.points[1]) =>
        ret = Return(<<"ROTATIONAL_2", "ROTATIONAL_4", "ROTATIONAL_8",
                       "REFLECTIONAL_VERTICAL", "REFLECTIONAL_HORIZONTAL">>)

(* the same point twice *)
C30_Witness ==
    /\ op = "detect_symmetries"
    /\ args.via = "none"
    /\ args.points = <<Point2D(1, 1), Point2D(1, 1)>>
    /\ Len(ret.val) = 5

============================================================================
